---------------------------- MODULE Spec2Model ----------------------------
(***************************************************************************)
(* Skill Knowledge & Gap-Analysis Engine (hiepsiucap/KLTN).                *)
(*                                                                         *)
(* The module models                                                       *)
(*   - the skill ontology of src/skill_ontology.py: the registration table,*)
(*     the SKILL_ONTOLOGY dictionary built from it and get_skill;          *)
(*   - the list normalizer and the gap analysis of src/skill_processor.py; *)
(*   - the in-memory vector store of src/rag_knowledge.py.                 *)
(*                                                                         *)
(* Python strings are TLA+ strings; lower(), strip() and title() are       *)
(* computed character by character.  A Python set is a TLA+ set, a dict    *)
(* whose iteration order matters is a record of its key sequence and its   *)
(* mapping.                                                                *)
(***************************************************************************)
EXTENDS Integers, Sequences, FiniteSets, TLC

(***************************************************************************)
(* Bounds of the model.                                                    *)
(***************************************************************************)
\* longest raw list handed to extract_skills_from_list
MaxListLen == 3
\* longest candidate list handed to calculate_skill_gap
MaxCvLen == 2
\* longest required list handed to calculate_skill_gap
MaxJdLen == 2
\* longest candidate list of a call given include_similar_jds_skills
MaxSimilarCvLen == 1
\* largest number of distinct required skills in a scoring step
MaxRequired == 5
\* callers that share the vector store
NumCallers == 2
\* skills, career paths and resume tips of the knowledge base that
\* initialize() ingests
MaxSkillDocs == 1
MaxCareerDocs == 1
MaxTipDocs == 1
\* times a caller's own add_document() puts one document into the store
MaxAdded == 1
\* _register_skill calls made after the import of the module
MaxRegistered == 1

(***************************************************************************)
(* Python's str methods, on ASCII text.                                    *)
(***************************************************************************)
UpperToLower ==
  [c \in {"A","B","C","D","E","F","G","H","I","J","K","L","M",
          "N","O","P","Q","R","S","T","U","V","W","X","Y","Z"} |->
     CASE c = "A" -> "a" [] c = "B" -> "b" [] c = "C" -> "c" [] c = "D" -> "d"
       [] c = "E" -> "e" [] c = "F" -> "f" [] c = "G" -> "g" [] c = "H" -> "h"
       [] c = "I" -> "i" [] c = "J" -> "j" [] c = "K" -> "k" [] c = "L" -> "l"
       [] c = "M" -> "m" [] c = "N" -> "n" [] c = "O" -> "o" [] c = "P" -> "p"
       [] c = "Q" -> "q" [] c = "R" -> "r" [] c = "S" -> "s" [] c = "T" -> "t"
       [] c = "U" -> "u" [] c = "V" -> "v" [] c = "W" -> "w" [] c = "X" -> "x"
       [] c = "Y" -> "y" [] c = "Z" -> "z"]

UpperChars == DOMAIN UpperToLower
LowerChars == {UpperToLower[c] : c \in UpperChars}
\* the ASCII characters c with c.isspace(): the space, tab, line feed,
\* vertical tab, form feed, carriage return and the four separators
\* 0x1c..0x1f
Whitespace ==
  {" ", "\t", "\n", "", "\f", "\r", "", "", "", ""}

LowerChar(c) == IF c \in UpperChars THEN UpperToLower[c] ELSE c
UpperChar(c) ==
  IF c \in LowerChars THEN CHOOSE u \in UpperChars : UpperToLower[u] = c ELSE c
IsCased(c) == c \in UpperChars \cup LowerChars

\* str.lower()
RECURSIVE Lower(_)
Lower(s) == IF s = "" THEN "" ELSE LowerChar(Head(s)) \o Lower(Tail(s))

\* str.lstrip(), str.rstrip() and str.strip() with no argument
RECURSIVE LStrip(_)
LStrip(s) ==
  IF s = "" THEN ""
  ELSE IF Head(s) \in Whitespace THEN LStrip(Tail(s)) ELSE s

RECURSIVE RStrip(_)
RStrip(s) ==
  IF s = "" THEN ""
  ELSE IF SubSeq(s, Len(s), Len(s)) \in Whitespace
       THEN RStrip(SubSeq(s, 1, Len(s) - 1)) ELSE s

Strip(s) == RStrip(LStrip(s))

\* str.title(): a cased character is upper-cased when the character before
\* it is not cased (or there is none) and lower-cased otherwise
RECURSIVE TitleFrom(_, _)
TitleFrom(s, prevCased) ==
  IF s = "" THEN ""
  ELSE LET c == Head(s) IN
       (IF ~IsCased(c) THEN c
        ELSE IF prevCased THEN LowerChar(c) ELSE UpperChar(c))
       \o TitleFrom(Tail(s), IsCased(c))

Title(s) == TitleFrom(s, FALSE)

(***************************************************************************)
(* The ontology: one record per _register_skill(Skill(...)) call, in the   *)
(* order of the calls.  The descriptive fields (description, learning      *)
(* path, tips, salary, child skills) take no part in any lookup or score   *)
(* and are left out of the record.                                         *)
(***************************************************************************)
SKILL_TABLE ==
  <<
    [id |-> "python", name |-> "Python", category |-> "Programming Language",
     aliases |-> <<"python3", "py", "python 3", "python3.x">>,
     related_skills |-> <<"django", "flask", "fastapi", "numpy", "pandas">>,
     parent_skills |-> <<>>,
     market_demand |-> "high",
     keywords |-> <<"python", "django", "flask", "fastapi", "pip", "pytest">>],
    [id |-> "javascript", name |-> "JavaScript", category |-> "Programming Language",
     aliases |-> <<"js", "es6", "es2015", "ecmascript", "vanilla js", "vanilla javascript">>,
     related_skills |-> <<"typescript", "react", "vue", "angular", "nodejs">>,
     parent_skills |-> <<>>,
     market_demand |-> "very_high",
     keywords |-> <<"javascript", "js", "es6", "node", "npm", "react", "vue">>],
    [id |-> "typescript", name |-> "TypeScript", category |-> "Programming Language",
     aliases |-> <<"ts", "type script">>,
     related_skills |-> <<"javascript", "react", "angular", "nodejs", "nestjs">>,
     parent_skills |-> <<"javascript">>,
     market_demand |-> "very_high",
     keywords |-> <<"typescript", "ts", "tsc", "types", "interfaces">>],
    [id |-> "go", name |-> "Go", category |-> "Programming Language",
     aliases |-> <<"golang", "go-lang", "go lang">>,
     related_skills |-> <<"docker", "kubernetes", "microservices", "grpc">>,
     parent_skills |-> <<>>,
     market_demand |-> "high",
     keywords |-> <<"go", "golang", "goroutine", "channel", "gin", "echo">>],
    [id |-> "java", name |-> "Java", category |-> "Programming Language",
     aliases |-> <<"java8", "java11", "java17", "java21", "jdk", "jre">>,
     related_skills |-> <<"spring-boot", "hibernate", "maven", "gradle">>,
     parent_skills |-> <<>>,
     market_demand |-> "high",
     keywords |-> <<"java", "spring", "maven", "gradle", "jvm", "hibernate">>],
    [id |-> "csharp", name |-> "C#", category |-> "Programming Language",
     aliases |-> <<"c-sharp", "c sharp", "csharp", ".net", "dotnet">>,
     related_skills |-> <<"asp.net", "entity-framework", "azure">>,
     parent_skills |-> <<>>,
     market_demand |-> "high",
     keywords |-> <<"c#", "csharp", ".net", "dotnet", "asp.net", "azure">>],
    [id |-> "rust", name |-> "Rust", category |-> "Programming Language",
     aliases |-> <<"rust-lang", "rustlang">>,
     related_skills |-> <<"systems-programming", "webassembly">>,
     parent_skills |-> <<"c", "cpp">>,
     market_demand |-> "niche",
     keywords |-> <<"rust", "cargo", "ownership", "borrowing">>],
    [id |-> "react", name |-> "React", category |-> "Frontend Framework",
     aliases |-> <<"reactjs", "react.js", "react 18", "react js">>,
     related_skills |-> <<"redux", "react-query", "nextjs", "typescript">>,
     parent_skills |-> <<"javascript", "html", "css">>,
     market_demand |-> "very_high",
     keywords |-> <<"react", "jsx", "hooks", "redux", "component">>],
    [id |-> "vue", name |-> "Vue.js", category |-> "Frontend Framework",
     aliases |-> <<"vuejs", "vue", "vue3", "vue 3", "vue.js 3">>,
     related_skills |-> <<"vuex", "pinia", "nuxtjs", "typescript">>,
     parent_skills |-> <<"javascript", "html", "css">>,
     market_demand |-> "high",
     keywords |-> <<"vue", "vuex", "pinia", "composition api", "nuxt">>],
    [id |-> "angular", name |-> "Angular", category |-> "Frontend Framework",
     aliases |-> <<"angular2", "angular 2+", "angularjs">>,
     related_skills |-> <<"typescript", "rxjs", "ngrx">>,
     parent_skills |-> <<"typescript", "html", "css">>,
     market_demand |-> "medium",
     keywords |-> <<"angular", "typescript", "rxjs", "ngrx", "module">>],
    [id |-> "nextjs", name |-> "Next.js", category |-> "Frontend Framework",
     aliases |-> <<"next.js", "next js", "next 13", "next 14">>,
     related_skills |-> <<"react", "typescript", "vercel">>,
     parent_skills |-> <<"react">>,
     market_demand |-> "very_high",
     keywords |-> <<"next", "nextjs", "ssr", "ssg", "vercel", "app router">>],
    [id |-> "tailwindcss", name |-> "Tailwind CSS", category |-> "Frontend Framework",
     aliases |-> <<"tailwind", "tailwind css">>,
     related_skills |-> <<"css", "html", "react", "vue">>,
     parent_skills |-> <<"css", "html">>,
     market_demand |-> "high",
     keywords |-> <<"tailwind", "utility-first", "css", "responsive">>],
    [id |-> "nodejs", name |-> "Node.js", category |-> "Backend Framework",
     aliases |-> <<"node", "node.js", "nodejs", "node js">>,
     related_skills |-> <<"express", "nestjs", "typescript", "mongodb">>,
     parent_skills |-> <<"javascript">>,
     market_demand |-> "high",
     keywords |-> <<"node", "npm", "express", "nestjs", "fastify">>],
    [id |-> "express", name |-> "Express.js", category |-> "Backend Framework",
     aliases |-> <<"expressjs", "express.js", "express js">>,
     related_skills |-> <<"nodejs", "mongodb", "postgresql">>,
     parent_skills |-> <<"nodejs">>,
     market_demand |-> "high",
     keywords |-> <<"express", "middleware", "routing", "rest api">>],
    [id |-> "nestjs", name |-> "NestJS", category |-> "Backend Framework",
     aliases |-> <<"nest.js", "nest js", "nest">>,
     related_skills |-> <<"typescript", "nodejs", "graphql">>,
     parent_skills |-> <<"nodejs", "typescript">>,
     market_demand |-> "high",
     keywords |-> <<"nestjs", "decorator", "module", "controller", "service">>],
    [id |-> "django", name |-> "Django", category |-> "Backend Framework",
     aliases |-> <<"django-rest-framework", "drf", "django rest">>,
     related_skills |-> <<"python", "postgresql", "celery", "redis">>,
     parent_skills |-> <<"python">>,
     market_demand |-> "high",
     keywords |-> <<"django", "drf", "orm", "celery", "admin">>],
    [id |-> "fastapi", name |-> "FastAPI", category |-> "Backend Framework",
     aliases |-> <<"fast-api", "fast api">>,
     related_skills |-> <<"python", "pydantic", "async", "openapi">>,
     parent_skills |-> <<"python">>,
     market_demand |-> "high",
     keywords |-> <<"fastapi", "pydantic", "async", "openapi", "uvicorn">>],
    [id |-> "spring-boot", name |-> "Spring Boot", category |-> "Backend Framework",
     aliases |-> <<"springboot", "spring-boot", "spring boot", "spring">>,
     related_skills |-> <<"java", "hibernate", "maven", "microservices">>,
     parent_skills |-> <<"java">>,
     market_demand |-> "very_high",
     keywords |-> <<"spring", "boot", "bean", "autowired", "jpa">>],
    [id |-> "postgresql", name |-> "PostgreSQL", category |-> "Database",
     aliases |-> <<"postgres", "psql", "pg", "postgre">>,
     related_skills |-> <<"sql", "database-design", "indexing">>,
     parent_skills |-> <<"sql">>,
     market_demand |-> "very_high",
     keywords |-> <<"postgresql", "postgres", "sql", "query", "index">>],
    [id |-> "mysql", name |-> "MySQL", category |-> "Database",
     aliases |-> <<"my-sql", "mariadb">>,
     related_skills |-> <<"sql", "database-design">>,
     parent_skills |-> <<"sql">>,
     market_demand |-> "high",
     keywords |-> <<"mysql", "sql", "mariadb", "innodb">>],
    [id |-> "mongodb", name |-> "MongoDB", category |-> "Database",
     aliases |-> <<"mongo", "nosql", "document db">>,
     related_skills |-> <<"mongoose", "nosql", "aggregation">>,
     parent_skills |-> <<>>,
     market_demand |-> "high",
     keywords |-> <<"mongodb", "mongo", "document", "nosql", "aggregation">>],
    [id |-> "redis", name |-> "Redis", category |-> "Database",
     aliases |-> <<"redis cache", "in-memory", "redis db">>,
     related_skills |-> <<"caching", "pub-sub", "session">>,
     parent_skills |-> <<>>,
     market_demand |-> "high",
     keywords |-> <<"redis", "cache", "memory", "pub/sub", "session">>],
    [id |-> "elasticsearch", name |-> "Elasticsearch", category |-> "Database",
     aliases |-> <<"elastic", "es", "elk", "opensearch">>,
     related_skills |-> <<"full-text-search", "logging", "kibana">>,
     parent_skills |-> <<>>,
     market_demand |-> "high",
     keywords |-> <<"elasticsearch", "elastic", "search", "kibana", "logstash">>],
    [id |-> "docker", name |-> "Docker", category |-> "DevOps",
     aliases |-> <<"docker-compose", "containerization", "container">>,
     related_skills |-> <<"kubernetes", "ci-cd", "linux">>,
     parent_skills |-> <<"linux">>,
     market_demand |-> "very_high",
     keywords |-> <<"docker", "container", "dockerfile", "compose", "image">>],
    [id |-> "kubernetes", name |-> "Kubernetes", category |-> "DevOps",
     aliases |-> <<"k8s", "kube", "k8", "kubernetes cluster">>,
     related_skills |-> <<"docker", "helm", "aws-eks", "gke">>,
     parent_skills |-> <<"docker", "linux">>,
     market_demand |-> "very_high",
     keywords |-> <<"kubernetes", "k8s", "pod", "deployment", "service", "helm">>],
    [id |-> "ci-cd", name |-> "CI/CD", category |-> "DevOps",
     aliases |-> <<"cicd", "continuous integration", "continuous deployment", "pipeline">>,
     related_skills |-> <<"github-actions", "jenkins", "gitlab-ci">>,
     parent_skills |-> <<"git">>,
     market_demand |-> "very_high",
     keywords |-> <<"ci/cd", "pipeline", "jenkins", "github actions", "gitlab ci">>],
    [id |-> "github-actions", name |-> "GitHub Actions", category |-> "DevOps",
     aliases |-> <<"gh actions", "github action">>,
     related_skills |-> <<"ci-cd", "git", "docker">>,
     parent_skills |-> <<"git", "ci-cd">>,
     market_demand |-> "high",
     keywords |-> <<"github actions", "workflow", "yaml", "automation">>],
    [id |-> "terraform", name |-> "Terraform", category |-> "DevOps",
     aliases |-> <<"tf", "terraform cloud", "hcl">>,
     related_skills |-> <<"aws", "gcp", "azure", "infrastructure-as-code">>,
     parent_skills |-> <<"cloud">>,
     market_demand |-> "high",
     keywords |-> <<"terraform", "hcl", "infrastructure", "iac", "module">>],
    [id |-> "aws", name |-> "AWS", category |-> "Cloud",
     aliases |-> <<"amazon web services", "aws cloud", "amazon aws">>,
     related_skills |-> <<"ec2", "s3", "rds", "lambda", "eks">>,
     parent_skills |-> <<>>,
     market_demand |-> "very_high",
     keywords |-> <<"aws", "ec2", "s3", "lambda", "cloudformation", "iam">>],
    [id |-> "gcp", name |-> "Google Cloud Platform", category |-> "Cloud",
     aliases |-> <<"gcp", "google cloud", "gcloud">>,
     related_skills |-> <<"gke", "bigquery", "cloud-run">>,
     parent_skills |-> <<>>,
     market_demand |-> "high",
     keywords |-> <<"gcp", "gke", "bigquery", "cloud run", "firebase">>],
    [id |-> "azure", name |-> "Microsoft Azure", category |-> "Cloud",
     aliases |-> <<"azure cloud", "ms azure">>,
     related_skills |-> <<"azure-devops", "aks", "azure-functions">>,
     parent_skills |-> <<>>,
     market_demand |-> "high",
     keywords |-> <<"azure", "aks", "azure devops", "azure functions">>],
    [id |-> "microservices", name |-> "Microservices", category |-> "Architecture",
     aliases |-> <<"microservice architecture", "distributed systems", "micro-services">>,
     related_skills |-> <<"docker", "kubernetes", "api-gateway", "kafka">>,
     parent_skills |-> <<"system-design">>,
     market_demand |-> "very_high",
     keywords |-> <<"microservices", "distributed", "service mesh", "api gateway">>],
    [id |-> "rest-api", name |-> "REST API", category |-> "Architecture",
     aliases |-> <<"restful", "rest", "restful api", "api design">>,
     related_skills |-> <<"http", "json", "openapi", "swagger">>,
     parent_skills |-> <<>>,
     market_demand |-> "very_high",
     keywords |-> <<"rest", "api", "http", "json", "swagger", "openapi">>],
    [id |-> "graphql", name |-> "GraphQL", category |-> "Architecture",
     aliases |-> <<"graph-ql", "gql">>,
     related_skills |-> <<"apollo", "rest-api", "nodejs">>,
     parent_skills |-> <<"rest-api">>,
     market_demand |-> "high",
     keywords |-> <<"graphql", "apollo", "query", "mutation", "schema">>],
    [id |-> "system-design", name |-> "System Design", category |-> "Architecture",
     aliases |-> <<"system architecture", "software architecture", "hld">>,
     related_skills |-> <<"microservices", "distributed-systems", "scalability">>,
     parent_skills |-> <<>>,
     market_demand |-> "very_high",
     keywords |-> <<"system design", "architecture", "scalability", "reliability">>],
    [id |-> "kafka", name |-> "Apache Kafka", category |-> "Message Queue",
     aliases |-> <<"kafka", "event streaming", "confluent">>,
     related_skills |-> <<"event-driven", "microservices", "stream-processing">>,
     parent_skills |-> <<"microservices">>,
     market_demand |-> "high",
     keywords |-> <<"kafka", "topic", "partition", "consumer", "producer">>],
    [id |-> "rabbitmq", name |-> "RabbitMQ", category |-> "Message Queue",
     aliases |-> <<"rabbit", "amqp">>,
     related_skills |-> <<"message-queue", "async", "microservices">>,
     parent_skills |-> <<>>,
     market_demand |-> "medium",
     keywords |-> <<"rabbitmq", "queue", "exchange", "amqp", "message">>],
    [id |-> "unit-testing", name |-> "Unit Testing", category |-> "Testing",
     aliases |-> <<"unit test", "testing", "tdd">>,
     related_skills |-> <<"jest", "pytest", "junit", "mocha">>,
     parent_skills |-> <<>>,
     market_demand |-> "very_high",
     keywords |-> <<"unit test", "testing", "tdd", "mock", "coverage">>],
    [id |-> "git", name |-> "Git", category |-> "Version Control",
     aliases |-> <<"github", "gitlab", "bitbucket", "version control">>,
     related_skills |-> <<"github", "gitlab", "ci-cd">>,
     parent_skills |-> <<>>,
     market_demand |-> "very_high",
     keywords |-> <<"git", "github", "gitlab", "commit", "branch", "merge">>],
    [id |-> "agile", name |-> "Agile/Scrum", category |-> "Methodology",
     aliases |-> <<"scrum", "agile methodology", "kanban", "sprint">>,
     related_skills |-> <<"jira", "confluence", "project-management">>,
     parent_skills |-> <<>>,
     market_demand |-> "very_high",
     keywords |-> <<"agile", "scrum", "sprint", "kanban", "standup">>],
    [id |-> "machine-learning", name |-> "Machine Learning", category |-> "AI/ML",
     aliases |-> <<"ml", "ai", "artificial intelligence">>,
     related_skills |-> <<"python", "tensorflow", "pytorch", "scikit-learn">>,
     parent_skills |-> <<"python", "statistics">>,
     market_demand |-> "very_high",
     keywords |-> <<"machine learning", "ml", "ai", "model", "training">>],
    [id |-> "llm", name |-> "LLM/GenAI", category |-> "AI/ML",
     aliases |-> <<"large language models", "generative ai", "chatgpt", "gpt">>,
     related_skills |-> <<"openai", "langchain", "rag", "prompt-engineering">>,
     parent_skills |-> <<"machine-learning">>,
     market_demand |-> "very_high",
     keywords |-> <<"llm", "gpt", "openai", "langchain", "rag", "prompt">>]
  >>

\* Python's None
None == [id |-> "<None>"]

\* Op(v), with v evaluated once however often Op uses its argument
Once(v, Op(_)) == CHOOSE r \in {Op(x) : x \in {v}} : TRUE

SeqToSet(s) == {s[i] : i \in 1..Len(s)}

\* the keys _register_skill assigns, in the order of its assignments: the id,
\* then every lower-cased alias
RegisteredKeys(skill) ==
  <<skill.id>> \o [i \in 1..Len(skill.aliases) |-> Lower(skill.aliases[i])]

\* the same for every registration of the module, computed once
TableKeys ==
  [i \in 1..Len(SKILL_TABLE) |-> RegisteredKeys(SKILL_TABLE[i])] @@ <<>>

\* a sequence of keys without its repeated elements, first occurrences kept
\* in order: a second assignment to a key of a dict leaves the key in place
Dedupe(s) ==
  LET idx == SelectSeq([i \in 1..Len(s) |-> i],
                       LAMBDA i : \A j \in 1..(i - 1) : s[j] # s[i])
  IN  [n \in 1..Len(idx) |-> s[idx[n]]]

\* the keys the i-th registration creates: those it assigns that no earlier
\* registration assigned, in the order of their first assignment
CreatedKeys(i) ==
  LET old == UNION {SeqToSet(TableKeys[j]) : j \in 1..(i - 1)}
  IN  SelectSeq(Dedupe(TableKeys[i]), LAMBDA k : k \notin old)

\* the keys of the dictionary after the first i registrations.
\* dict.__setitem__ puts a new key at the end and lets an existing key keep
\* its place
KeysAfter[i \in 0..Len(SKILL_TABLE)] ==
  IF i = 0 THEN <<>> ELSE KeysAfter[i - 1] \o CreatedKeys(i)

\* the module-level dictionary after the last registration of the module,
\* as an import leaves it: an assignment to
\* an existing key replaces its value, so each key maps to the skill of the
\* last registration that assigns it
SKILL_ONTOLOGY ==
  [keys |-> KeysAfter[Len(SKILL_TABLE)],
   val  |-> [k \in UNION {SeqToSet(TableKeys[i]) : i \in 1..Len(SKILL_TABLE)} |->
               SKILL_TABLE[CHOOSE i \in 1..Len(SKILL_TABLE) :
                             /\ k \in SeqToSet(TableKeys[i])
                             /\ \A j \in (i + 1)..Len(SKILL_TABLE) :
                                  k \notin SeqToSet(TableKeys[j])]] @@ <<>>]

\* _register_skill(skill) on a dictionary: the id and every lower-cased alias
\* are assigned the skill, whatever the dictionary holds under them
register_skill(dict, skill) ==
  LET assigned == Dedupe(RegisteredKeys(skill))
  IN [keys |-> dict.keys
                 \o SelectSeq(assigned, LAMBDA k : k \notin DOMAIN dict.val),
      val  |-> [k \in DOMAIN dict.val \cup SeqToSet(assigned) |->
                  IF k \in SeqToSet(assigned) THEN skill ELSE dict.val[k]]]

(***************************************************************************)
(* State.  The engine is a library of functions over the dictionary        *)
(* SKILL_ONTOLOGY of the module, which _register_skill assigns to and the  *)
(* lookups read: a call is one step from "idle" that records the           *)
(* operation, its arguments and what it returned (or raised), and Return   *)
(* gives the control back.  The vector store of src/rag_knowledge.py is    *)
(* one shared object; each of its callers is at a position of initialize() *)
(* or between two calls.                                                   *)
(***************************************************************************)
VARIABLES
  op,              \* the engine operation whose result is held, or "idle"
  args,            \* its arguments
  result,          \* what it returned
  registrations,   \* the skills _register_skill was called with since the import
  documents,       \* SimpleVectorStore.documents
  embeddings,      \* SimpleVectorStore.embeddings
  is_initialized,  \* SimpleVectorStore.is_initialized
  client,          \* SimpleVectorStore._client
  pc,              \* the position of each caller of the store
  position,        \* the entry of the knowledge base a caller's initialize() is at
  embedding,       \* the local embedding of a caller's add_document()
  results,         \* what a caller's last search() returned
  frame            \* the function a caller is in, with its arguments

engineVars == <<op, args, result, registrations>>
storeVars ==
  <<documents, embeddings, is_initialized, client, pc, position, embedding, results,
    frame>>

\* the dictionary SKILL_ONTOLOGY as it is now: the one the import left, with
\* the assignments of the registrations made since, in the order of the
\* calls
ontology ==
  LET after[n \in 0..Len(registrations)] ==
        IF n = 0 THEN SKILL_ONTOLOGY
        ELSE register_skill(after[n - 1], registrations[n])
  IN after[Len(registrations)]

\* dict.values(), in the dictionary's order
ValuesOf(dict) == [i \in 1..Len(dict.keys) |-> dict.val[dict.keys[i]]]

\* SKILL_ONTOLOGY.values() after the import, computed once
OntologyValues == ValuesOf(SKILL_ONTOLOGY) @@ <<>>

\* what one turn of get_skill's loop compares the string against:
\* skill.name.lower(), [a.lower() for a in skill.aliases] and
\* [k.lower() for k in skill.keywords]
LoweredSkill(skill) ==
  [name     |-> Lower(skill.name),
   aliases  |-> {Lower(a) : a \in SeqToSet(skill.aliases)},
   keywords |-> {Lower(k) : k \in SeqToSet(skill.keywords)}]

\* the same for every value of the dictionary of the import, computed once
LoweredValues ==
  [i \in 1..Len(OntologyValues) |-> LoweredSkill(OntologyValues[i])] @@ <<>>

\* the same for the i-th of the given values: a value the import left at its
\* place is not lowered again
LoweredAt(values, i) ==
  IF i <= Len(OntologyValues) /\ values[i] = OntologyValues[i]
  THEN LoweredValues[i]
  ELSE LoweredSkill(values[i])

\* the three comparisons of one turn of get_skill's loop
SkillMatches(lowered, normalized) ==
  \/ normalized = lowered.name
  \/ normalized \in lowered.aliases
  \/ normalized \in lowered.keywords

\* the loop of get_skill: the first value of the dictionary whose name,
\* aliases or keywords hold the string, None when there is none
ScanValues(normalized) ==
  Once(ValuesOf(ontology),
      LAMBDA values :
        Once({i \in 1..Len(values) : SkillMatches(LoweredAt(values, i), normalized)},
            LAMBDA hits :
              IF hits = {} THEN None
              ELSE values[CHOOSE i \in hits : \A j \in hits : i <= j]))

\* get_skill: the direct lookup of the stripped, lower-cased string, then
\* the loop
get_skill(skill_name) ==
  Once(Strip(Lower(skill_name)),
      LAMBDA normalized :
        IF normalized \in DOMAIN ontology.val
        THEN ontology.val[normalized]
        ELSE ScanValues(normalized))

normalize_skill_name(skill_name) ==
  Once(get_skill(skill_name),
      LAMBDA skill : IF skill # None THEN skill.name ELSE skill_name)

(***************************************************************************)
(* src/skill_processor.py: extract_skills_from_list.  A confidence is kept *)
(* in hundredths (1.0 is 100, 0.5 is 50).                                  *)
(***************************************************************************)
\* the test that skips an entry: `not raw_skill or raw_skill.strip() == ""`
IsBlankEntry(raw_skill) == raw_skill = "" \/ Strip(raw_skill) = ""

\* the record appended for an entry the ontology resolves
OntologyRecord(raw_skill, skill_obj, source) ==
  [raw_name        |-> raw_skill,
   normalized_name |-> skill_obj.name,
   category        |-> skill_obj.category,
   confidence      |-> 100,
   source          |-> source,
   in_ontology     |-> TRUE]

\* FallbackRecord keeping the entry as written: the sensitivity case of C8
FallbackRecordAsWritten(raw_skill, source) ==
  [raw_name        |-> raw_skill,
   normalized_name |-> raw_skill,
   category        |-> "Other",
   confidence      |-> 50,
   source          |-> source,
   in_ontology     |-> FALSE]

\* the record appended for an entry the ontology does not resolve
FallbackRecord(raw_skill, source) ==
  [raw_name        |-> raw_skill,
   normalized_name |-> Title(raw_skill),
   category        |-> "Other",
   confidence      |-> 50,
   source          |-> source,
   in_ontology     |-> FALSE]

\* the record one turn of the loop has for the stripped entry
EntryRecord(raw_skill, source) ==
  Once(get_skill(raw_skill),
      LAMBDA skill_obj :
        IF skill_obj # None THEN OntologyRecord(raw_skill, skill_obj, source)
        ELSE FallbackRecord(raw_skill, source))

\* LoopTurn without the test against seen: the sensitivity case of C7
LoopTurnNoSeen(raw_skill, source, acc) ==
  IF IsBlankEntry(raw_skill) THEN acc
  ELSE Once(EntryRecord(Strip(raw_skill), source),
           LAMBDA rec :
             [extracted |-> Append(acc.extracted, rec),
              seen      |-> acc.seen \cup {rec.normalized_name}])

\* one turn of the loop: the list built so far and the names seen so far,
\* after the entry raw_skill
LoopTurn(raw_skill, source, acc) ==
  IF IsBlankEntry(raw_skill) THEN acc
  ELSE Once(EntryRecord(Strip(raw_skill), source),
           LAMBDA rec :
             IF rec.normalized_name \in acc.seen THEN acc
             ELSE [extracted |-> Append(acc.extracted, rec),
                   seen      |-> acc.seen \cup {rec.normalized_name}])

\* the loop over the first i entries
RECURSIVE ExtractLoop(_, _, _)
ExtractLoop(skills_list, source, i) ==
  IF i = 0 THEN [extracted |-> <<>>, seen |-> {}]
  ELSE Once(ExtractLoop(skills_list, source, i - 1),
           LAMBDA acc : LoopTurn(skills_list[i], source, acc))

extract_skills_from_list(skills_list, source) ==
  ExtractLoop(skills_list, source, Len(skills_list)).extracted

(***************************************************************************)
(* Python's float: an IEEE 754 binary64 number, here never negative.       *)
(*                                                                         *)
(* A float is the record [man, exp] of value man * 2^exp, with man an odd  *)
(* natural number below 2^53, or man = 0 and exp = 0: every value has one   *)
(* record.  A natural number is the sequence of its digits in base 2^15,   *)
(* lowest digit first, without a highest digit 0, so that every product of *)
(* a digit and a small integer stays within TLC's integers.  Each          *)
(* operation gives the exact result rounded to 53 significant bits, a tie  *)
(* going to the even neighbour, as the hardware does.  The values of the   *)
(* program are far from the overflow and the subnormal range.  nan is a    *)
(* record of its own, which the arithmetic is never given.                 *)
(***************************************************************************)
LimbBits == 15
Base == 2^LimbBits
Precision == 53

\* a sequence of digits without its highest zeros
Trim(a) ==
  LET used == {i \in 1..Len(a) : a[i] # 0}
  IN IF used = {} THEN <<>>
     ELSE SubSeq(a, 1, CHOOSE i \in used : \A j \in used : j <= i)

\* the natural number of an integer 0 <= x < 2^30
NatOf(x) == Trim(<<x % Base, x \div Base>>)

\* the integer of a natural number below 2^30
IntOf(a) ==
  (IF Len(a) >= 1 THEN a[1] ELSE 0) + (IF Len(a) >= 2 THEN a[2] * Base ELSE 0)

\* a * c + carry for an integer 0 <= c <= 2^15
RECURSIVE NatMulSmall(_, _, _)
NatMulSmall(a, c, carry) ==
  IF a = <<>>
  THEN IF carry = 0 THEN <<>>
       ELSE <<carry % Base>> \o NatMulSmall(<<>>, c, carry \div Base)
  ELSE LET t == Head(a) * c + carry
       IN <<t % Base>> \o NatMulSmall(Tail(a), c, t \div Base)

\* a + b + carry
RECURSIVE NatAdd(_, _, _)
NatAdd(a, b, carry) ==
  IF a = <<>> /\ b = <<>>
  THEN IF carry = 0 THEN <<>> ELSE <<carry>>
  ELSE LET t == (IF a = <<>> THEN 0 ELSE Head(a))
                  + (IF b = <<>> THEN 0 ELSE Head(b)) + carry
       IN <<t % Base>>
            \o NatAdd(IF a = <<>> THEN <<>> ELSE Tail(a),
                      IF b = <<>> THEN <<>> ELSE Tail(b), t \div Base)

\* a <= b
NatLeq(a, b) ==
  IF Len(a) # Len(b) THEN Len(a) < Len(b)
  ELSE \/ a = b
       \/ \E i \in 1..Len(a) :
            /\ a[i] < b[i]
            /\ \A j \in (i + 1)..Len(a) : a[j] = b[j]

\* a * 2^d
ShiftLeft(a, d) ==
  IF a = <<>> THEN <<>>
  ELSE [i \in 1..(d \div LimbBits) |-> 0]
         \o NatMulSmall(a, 2^(d % LimbBits), 0)

\* floor(a / 2^d)
ShiftRight(a, d) ==
  LET q == d \div LimbBits
      r == d % LimbBits
      digit(i) == IF i <= Len(a) THEN a[i] ELSE 0
  IN Trim([j \in 1..(Len(a) - q) |->
             digit(j + q) \div 2^r + (digit(j + q + 1) % 2^r) * 2^(LimbBits - r)])

\* bit i of a, bit 0 the lowest
Bit(a, i) ==
  IF i \div LimbBits + 1 > Len(a) THEN 0
  ELSE (a[i \div LimbBits + 1] \div 2^(i % LimbBits)) % 2

\* a is a multiple of 2^d
LowBitsZero(a, d) == \A i \in 0..(d - 1) : Bit(a, i) = 0

\* the number of bits of a # 0
BitLen(a) ==
  LimbBits * (Len(a) - 1)
    + (CHOOSE n \in 1..LimbBits : 2^(n - 1) <= a[Len(a)] /\ a[Len(a)] < 2^n)

\* the number of zero bits below the lowest one bit of a # 0
TrailingZeros(a) ==
  LET i == CHOOSE k \in 1..Len(a) : a[k] # 0 /\ \A j \in 1..(k - 1) : a[j] = 0
  IN LimbBits * (i - 1)
       + (CHOOSE t \in 0..(LimbBits - 1) :
            a[i] % 2^t = 0 /\ a[i] % 2^(t + 1) # 0)

\* floor(a / n) and a % n for an integer 0 < n <= 2^15: the long division,
\* from the highest digit down
NatDivSmall(a, n) ==
  LET step[i \in 1..(Len(a) + 1)] ==
        IF i = Len(a) + 1 THEN [quot |-> 0, rem |-> 0]
        ELSE LET cur == step[i + 1].rem * Base + a[i]
             IN [quot |-> cur \div n, rem |-> cur % n]
  IN [quot |-> Trim([i \in 1..Len(a) |-> step[i].quot]), rem |-> step[1].rem]

Zero == [man |-> <<>>, exp |-> 0]

\* the float of value a * 2^e, for a natural number a below 2^53
Float(a, e) ==
  IF a = <<>> THEN Zero
  ELSE LET z == TrailingZeros(a)
       IN [man |-> ShiftRight(a, z), exp |-> e + z]

\* the float nearest to a * 2^e (+ a positive amount below 2^e when inexact
\* holds): round to nearest, ties to even
RoundNearestEven(a, e, inexact) ==
  IF a = <<>> THEN Zero
  ELSE LET d == BitLen(a) - Precision IN
       IF d <= 0 THEN Float(a, e)
       ELSE LET q    == ShiftRight(a, d)
                half == Bit(a, d - 1) = 1
                rest == inexact \/ ~LowBitsZero(a, d - 1)
                up   == half /\ (rest \/ Bit(a, d) = 1)
            IN Float(IF up THEN NatAdd(q, <<>>, 1) ELSE q, e + d)

\* float(i) of an integer 0 <= i < 2^30
FloatOfInt(i) == Float(NatOf(i), 0)

\* the float literals of lines 285-298
Hundred == FloatOfInt(100)
\* 0.3 is 0x1.3333333333333p-2 = 5404319552844595 * 2^-54
ThreeTenths == Float(<<13107, 26214, 19660, 153>>, -54)

\* m / n of two integers 0 <= m < 2^15 and 0 < n <= 2^15: the quotient with
\* 75 binary places and what is left of it, rounded
TrueDiv(m, n) ==
  LET d == NatDivSmall(ShiftLeft(NatOf(m), 5 * LimbBits), n)
  IN RoundNearestEven(d.quot, -(5 * LimbBits), d.rem # 0)

\* x * c of a float and an integer 0 <= c <= 2^15
FloatMulInt(x, c) ==
  RoundNearestEven(Trim(NatMulSmall(x.man, c, 0)), x.exp, FALSE)

\* x + y
FloatAdd(x, y) ==
  IF x = Zero THEN y
  ELSE IF y = Zero THEN x
  ELSE LET e == IF x.exp < y.exp THEN x.exp ELSE y.exp
       IN RoundNearestEven(NatAdd(ShiftLeft(x.man, x.exp - e),
                                  ShiftLeft(y.man, y.exp - e), 0), e, FALSE)

\* x <= y
FloatLeq(x, y) ==
  IF x = Zero THEN TRUE
  ELSE IF y = Zero THEN FALSE
  ELSE LET e == IF x.exp < y.exp THEN x.exp ELSE y.exp
       IN NatLeq(ShiftLeft(x.man, x.exp - e), ShiftLeft(y.man, y.exp - e))

\* a - b - borrow for a >= b + borrow, with the highest digits 0 kept
RECURSIVE NatSub(_, _, _)
NatSub(a, b, borrow) ==
  IF a = <<>> THEN <<>>
  ELSE Once(Head(a) - (IF b = <<>> THEN 0 ELSE Head(b)) - borrow,
           LAMBDA t :
             <<t % Base>>
               \o NatSub(Tail(a), IF b = <<>> THEN <<>> ELSE Tail(b),
                         IF t < 0 THEN 1 ELSE 0))

\* a * b, with the highest digits 0 kept
RECURSIVE NatMul(_, _)
NatMul(a, b) ==
  IF b = <<>> THEN <<>>
  ELSE NatAdd(NatMulSmall(a, Head(b), 0), <<0>> \o NatMul(a, Tail(b)), 0)

\* one turn of the long division of a by b, for bit i of a: the quotient
\* and the remainder so far take the bit in
DivBit(s, a, b, i) ==
  Once(NatAdd(ShiftLeft(s.rem, 1), <<>>, Bit(a, i)),
      LAMBDA r :
        IF NatLeq(b, r)
        THEN [quot |-> NatAdd(ShiftLeft(s.quot, 1), <<>>, 1),
              rem  |-> Trim(NatSub(r, b, 0))]
        ELSE [quot |-> ShiftLeft(s.quot, 1), rem |-> r])

\* the turns for the bits hi down to lo of a, from the quotient and the
\* remainder s
RECURSIVE DivBits(_, _, _, _, _)
DivBits(s, a, b, hi, lo) ==
  IF hi = lo THEN DivBit(s, a, b, hi)
  ELSE Once(DivBits(s, a, b, hi, (hi + lo) \div 2 + 1),
           LAMBDA t : DivBits(t, a, b, (hi + lo) \div 2, lo))

\* one turn of the square root of a natural number, for the bit 4^k: s.n is
\* what is left of the number and s.res the root so far
SqrtBit(s, k) ==
  Once(NatAdd(s.res, ShiftLeft(<<1>>, 2 * k), 0),
      LAMBDA t :
        IF NatLeq(t, s.n)
        THEN [n   |-> Trim(NatSub(s.n, t, 0)),
              res |-> NatAdd(ShiftRight(s.res, 1), ShiftLeft(<<1>>, 2 * k), 0)]
        ELSE [n |-> s.n, res |-> ShiftRight(s.res, 1)])

\* the turns for the bits 4^hi down to 4^lo
RECURSIVE SqrtBits(_, _, _)
SqrtBits(s, hi, lo) ==
  IF hi = lo THEN SqrtBit(s, hi)
  ELSE Once(SqrtBits(s, hi, (hi + lo) \div 2 + 1),
           LAMBDA t : SqrtBits(t, (hi + lo) \div 2, lo))

\* x * y
FloatMul(x, y) ==
  RoundNearestEven(Trim(NatMul(x.man, y.man)), x.exp + y.exp, FALSE)

\* x / y for y # 0: the quotient of the mantissas with 55 bits or more, by
\* the long division from the highest bit down, and what is left of it,
\* rounded
FloatDiv(x, y) ==
  IF x = Zero THEN Zero
  ELSE LET need == 55 + BitLen(y.man) - BitLen(x.man)
           s    == IF need > 0 THEN need ELSE 0
       IN Once(Once(ShiftLeft(x.man, s),
                    LAMBDA a : DivBits([quot |-> <<>>, rem |-> <<>>], a, y.man,
                                       BitLen(a) - 1, 0)),
              LAMBDA d : RoundNearestEven(d.quot, x.exp - s - y.exp, d.rem # <<>>))

\* sqrt(x): the root of the mantissa moved up to 110 bits or 111, the
\* exponent made even, with 55 bits or more (res) and what is left of the
\* mantissa (n), rounded
FloatSqrt(x) ==
  IF x = Zero THEN Zero
  ELSE LET up == 110 - BitLen(x.man)
           s  == IF (x.exp - up) % 2 = 0 THEN up ELSE up + 1
       IN Once(Once(ShiftLeft(x.man, s),
                    LAMBDA a : SqrtBits([n |-> a, res |-> <<>>], BitLen(a) \div 2, 0)),
              LAMBDA r : RoundNearestEven(r.res, (x.exp - s) \div 2, r.n # <<>>))

(***************************************************************************)
(* src/skill_processor.py: calculate_skill_gap.                            *)
(*                                                                         *)
(* The lists of the report are built by iterating Python sets of strings,  *)
(* whose order is not fixed (string hashes are salted per process), so the *)
(* model keeps each of them as a set.                                      *)
(*                                                                         *)
(* A percentage is a float; the reported field, round(match_percentage,    *)
(* 1), is kept in tenths of a percent.                                     *)
(***************************************************************************)
\* {s.normalized_name.lower() for s in extracted}
normalized_set(extracted) ==
  {Lower(extracted[i].normalized_name) : i \in 1..Len(extracted)}

\* {s.normalized_name.lower(): s.normalized_name for s in extracted}: a later
\* record replaces an earlier one under the same key
name_map(extracted) ==
  [k \in normalized_set(extracted) |->
     LET is == {i \in 1..Len(extracted) : Lower(extracted[i].normalized_name) = k}
     IN extracted[CHOOSE i \in is : \A j \in is : j <= i].normalized_name]

\* name_map.get(k, k)
MapGet(map, k) == IF k \in DOMAIN map THEN map[k] ELSE k

matching_lower(cv_normalized, jd_normalized) == cv_normalized \cap jd_normalized
\* missing_lower without the subtraction: the sensitivity case of C1
missing_lower_all(cv_normalized, jd_normalized) == jd_normalized
missing_lower(cv_normalized, jd_normalized) == jd_normalized \ cv_normalized
\* extra_lower without the subtraction: the sensitivity case of C29
extra_lower_all(cv_normalized, jd_normalized) == cv_normalized
extra_lower(cv_normalized, jd_normalized) == cv_normalized \ jd_normalized

\* the related skills of a missing skill that the candidate has:
\* set(s.lower() for s in missing_skill.related_skills) & cv_normalized
cv_has_related(missing, cv_normalized) ==
  Once(get_skill(missing),
      LAMBDA missing_skill :
        IF missing_skill = None THEN {}
        ELSE {Lower(s) : s \in SeqToSet(missing_skill.related_skills)}
               \cap cv_normalized)

\* the related_missing dictionary: an entry for every missing skill with a
\* related skill in the candidate's set
related_missing(missing, cv_normalized, cv_name_map, jd_name_map) ==
  Once([m \in missing |-> cv_has_related(m, cv_normalized)],
      LAMBDA related :
        LET covered == {m \in missing : related[m] # {}} IN
        [key \in {jd_name_map[m] : m \in covered} |->
           LET m == CHOOSE x \in covered : jd_name_map[x] = key
           IN {cv_name_map[r] : r \in related[m]}])

\* the outcome of a division by zero
ZeroDivisionError == [raised |-> "ZeroDivisionError"]

\* min(100, p): p when p < 100, and 100 otherwise
CapAt100(p) == IF FloatLeq(Hundred, p) THEN Hundred ELSE p

\* match_percentage giving 0 for an empty required list: the sensitivity
\* case of C3
match_percentage_else_zero(jd_given, m, n, k) ==
  IF jd_given
  THEN IF n = 0 THEN [raised |-> "ZeroDivisionError"]
       ELSE CapAt100(FloatAdd(FloatMulInt(TrueDiv(m, n), 100),
                              FloatMulInt(ThreeTenths, k)))
  ELSE Zero

\* match_percentage without the bonus of the related skills: the
\* sensitivity case of C20
match_percentage_no_bonus(jd_given, m, n, k) ==
  IF jd_given
  THEN IF n = 0 THEN [raised |-> "ZeroDivisionError"]
       ELSE CapAt100(FloatMulInt(TrueDiv(m, n), 100))
  ELSE Hundred

\* the float 0.5
Half == Float(<<1>>, -1)

\* match_percentage with a bonus of 0.5 for each related entry: the
\* sensitivity case of C21
match_percentage_half_bonus(jd_given, m, n, k) ==
  IF jd_given
  THEN IF n = 0 THEN [raised |-> "ZeroDivisionError"]
       ELSE CapAt100(FloatAdd(FloatMulInt(TrueDiv(m, n), 100),
                              FloatMulInt(Half, k)))
  ELSE Hundred

\* the match percentage: `if jd_skills:` tests the raw list, the division is
\* by the size of the normalized set.  With matching m, required n and
\* related entries k this is the float min(100, m / n * 100 + k * 0.3),
\* each of the four operations rounded
match_percentage(jd_given, m, n, k) ==
  IF jd_given
  THEN IF n = 0 THEN ZeroDivisionError
       ELSE CapAt100(FloatAdd(FloatMulInt(TrueDiv(m, n), 100),
                              FloatMulInt(ThreeTenths, k)))
  ELSE Hundred

\* p >= t for a float p and an integer t
AtLeast(p, t) == FloatLeq(FloatOfInt(t), p)

\* gap_severity with the first band exclusive: the sensitivity case of C6
gap_severity_exclusive(p) ==
  IF ~FloatLeq(p, FloatOfInt(80)) THEN "low"
  ELSE IF AtLeast(p, 60) THEN "medium"
  ELSE IF AtLeast(p, 40) THEN "high"
  ELSE "critical"

\* lines 291-299: the severity of the unrounded percentage
gap_severity(p) ==
  IF AtLeast(p, 80) THEN "low"
  ELSE IF AtLeast(p, 60) THEN "medium"
  ELSE IF AtLeast(p, 40) THEN "high"
  ELSE "critical"

\* round(p, 1) in tenths of a percent, for p below 2^26: the tenth nearest to
\* the value of the float, a tie going to the even tenth
RoundTenths(p) ==
  LET a == NatMulSmall(p.man, 10, 0) IN
  IF p.exp >= 0 THEN IntOf(ShiftLeft(a, p.exp))
  ELSE LET d    == -p.exp
           q    == IntOf(ShiftRight(a, d))
           half == Bit(a, d - 1) = 1
           rest == ~LowBitsZero(a, d - 1)
       IN IF half /\ (rest \/ q % 2 = 1) THEN q + 1 ELSE q

\* _categorize_skills: the names grouped by the category get_skill gives
\* them, "Other" when it gives none
CategoryOf(skill_name) ==
  Once(get_skill(skill_name),
      LAMBDA skill : IF skill # None THEN skill.category ELSE "Other")

categorize_skills(skill_names) ==
  Once([s \in skill_names |-> CategoryOf(s)],
      LAMBDA category :
        [cat \in {category[s] : s \in skill_names} |->
           {s \in skill_names : category[s] = cat}])

\* high_priority_missing listing the very_high demand alone: the sensitivity
\* case of C24
high_priority_very_high(missing_skills) ==
  {s \in missing_skills :
     Once(get_skill(s),
         LAMBDA skill : skill # None /\ skill.market_demand = "very_high")}

\* the missing skills whose market demand is very_high or high
high_priority_missing(missing_skills) ==
  {s \in missing_skills :
     Once(get_skill(s),
         LAMBDA skill :
           skill # None /\ skill.market_demand \in {"very_high", "high"})}

\* the missing skills with a parent skill in the candidate's set
quick_wins(missing_skills, cv_normalized) ==
  {s \in missing_skills :
     Once(get_skill(s),
         LAMBDA skill :
           /\ skill # None
           /\ \E i \in 1..Len(skill.parent_skills) :
                Lower(skill.parent_skills[i]) \in cv_normalized)}

\* calculate_skill_gap from line 250 on, given the two normalized lists and
\* whether jd_skills is a non-empty list: the report, or the exception that
\* ends the call.  The field exact_percentage is the local match_percentage
\* before it is rounded
GapReport(cv_extracted, jd_extracted, jd_given) ==
  LET cv_normalized == normalized_set(cv_extracted)
      jd_normalized == normalized_set(jd_extracted)
      cv_name_map   == name_map(cv_extracted)
      jd_name_map   == name_map(jd_extracted)
      matching      == matching_lower(cv_normalized, jd_normalized)
      missing       == missing_lower(cv_normalized, jd_normalized)
      extra         == extra_lower(cv_normalized, jd_normalized)
      matching_skills == {MapGet(jd_name_map, m) : m \in matching}
      missing_skills  == {MapGet(jd_name_map, m) : m \in missing}
      extra_skills    == {MapGet(cv_name_map, e) : e \in extra}
  IN Once(related_missing(missing, cv_normalized, cv_name_map, jd_name_map),
       LAMBDA related :
         Once(match_percentage(jd_given, Cardinality(matching),
                              Cardinality(jd_normalized),
                              Cardinality(DOMAIN related)),
           LAMBDA percentage :
             IF percentage = ZeroDivisionError THEN ZeroDivisionError
             ELSE [raised |-> "",
                   exact_percentage |-> percentage,
                   matching_skills |-> matching_skills,
                   missing_skills  |-> missing_skills,
                   extra_skills    |-> extra_skills,
                   related_missing |-> related,
                   match_percentage |-> RoundTenths(percentage),
                   gap_severity |-> gap_severity(percentage),
                   matching_by_category |-> categorize_skills(matching_skills),
                   missing_by_category  |-> categorize_skills(missing_skills),
                   high_priority_missing |-> high_priority_missing(missing_skills),
                   quick_wins |-> quick_wins(missing_skills, cv_normalized)]))

\* calculate_skill_gap reading include_similar_jds_skills as further
\* required skills: the sensitivity case of C30
calculate_skill_gap_with_similar(cv_skills, jd_skills, include_similar_jds_skills) ==
  Once(extract_skills_from_list(cv_skills, "cv"),
    LAMBDA cv_extracted :
      Once(extract_skills_from_list(
             IF include_similar_jds_skills = <<"None">> THEN jd_skills
             ELSE jd_skills \o include_similar_jds_skills, "jd"),
        LAMBDA jd_extracted :
          GapReport(cv_extracted, jd_extracted, jd_skills # <<>>)))

\* calculate_skill_gap.  include_similar_jds_skills is accepted and never
\* read
calculate_skill_gap(cv_skills, jd_skills, include_similar_jds_skills) ==
  Once(extract_skills_from_list(cv_skills, "cv"),
    LAMBDA cv_extracted :
      Once(extract_skills_from_list(jd_skills, "jd"),
        LAMBDA jd_extracted :
          GapReport(cv_extracted, jd_extracted, jd_skills # <<>>)))

\* every string of the table
TableStrings ==
  UNION {{SKILL_TABLE[i].id, SKILL_TABLE[i].name}
           \cup SeqToSet(SKILL_TABLE[i].aliases)
           \cup SeqToSet(SKILL_TABLE[i].keywords) : i \in 1..Len(SKILL_TABLE)}

\* str.upper()
RECURSIVE Upper(_)
Upper(s) == IF s = "" THEN "" ELSE UpperChar(Head(s)) \o Upper(Tail(s))

\* the strings looked up: every string of the table, as written and
\* upper-cased between blanks, and strings the table does not hold
LookupInputs ==
  TableStrings \cup {" " \o Upper(s) \o "\t" : s \in TableStrings}
    \cup {"", " ", "zzz", "reac", "c++", "foo BAR", "rest-apis",
          "python", "python", " ", ""}

\* the entries of the raw lists handed to extract_skills_from_list
RawEntries == {"REST API", "rest", "reactjs", "React ", "foo BAR", "Foo bar", " ", ""}

\* the entries of the candidate and of the required lists
CvRaw == {"Python", "docker", "rest", "Foo"}
JdRaw == {"python3", "Kubernetes", "REST API", "foo", " "}
\* include_similar_jds_skills: absent (None) or a list
NoList == <<"None">>
SimilarInputs == {NoList, <<"Kubernetes", "AWS">>}

\* the lists over S of length at most n
ListsOver(S, n) == UNION {[1..k -> S] : k \in 0..n}

\* the two lists of the module's own test, a candidate who has the
\* parent skill of the one skill required, a required list naming REST API
\* by its alias, thirteen required skills of which the candidate has
\* five and related skills of five more, and sixteen required skills and a
\* blank entry with the candidate's one skill between a vertical tab and a
\* separator
GapScenarios ==
  {[cv_skills |-> <<"Python", "Django", "PostgreSQL", "Git", "Docker", "REST API",
                    "Redis">>,
    jd_skills |-> <<"Python", "Go", "Kubernetes", "AWS", "Microservices", "Redis",
                    "Kafka", "Docker">>],
   [cv_skills |-> <<"Node.js">>, jd_skills |-> <<"Express.js">>],
   [cv_skills |-> <<>>, jd_skills |-> <<"rest">>],
   [cv_skills |-> <<"TypeScript", "Python", "Docker", "Microservices", "AWS">>,
    jd_skills |-> <<"TypeScript", "Python", "Docker", "Microservices", "AWS",
                    "React", "Vue.js", "Angular", "FastAPI", "Kubernetes", "Git",
                    "Redis", "Foo">>],
   [cv_skills |-> <<"python">>,
    jd_skills |-> <<"Python", "Django", "Go", "Java", "C#", "Rust", "React",
                    "Vue.js", "Angular", "Next.js", "Tailwind CSS", "Node.js",
                    "NestJS", "Spring Boot", "PostgreSQL", "MySQL", " ">>]}

\* the pairs of lists handed to calculate_skill_gap
GapInputs ==
  {[cv_skills |-> cv_skills, jd_skills |-> jd_skills] :
     cv_skills \in ListsOver(CvRaw, MaxCvLen), jd_skills \in ListsOver(JdRaw, MaxJdLen)}
    \cup GapScenarios

\* skills for one more _register_skill call after those of the module: one
\* with an id and an alias of its own, one with the alias "py" of Python,
\* one with the id "react" of React
NewSkills ==
  {[id |-> "svelte", name |-> "Svelte", category |-> "Frontend Framework",
    aliases |-> <<"sveltejs">>, related_skills |-> <<>>, parent_skills |-> <<>>,
    market_demand |-> "medium", keywords |-> <<>>],
   [id |-> "pypy", name |-> "PyPy", category |-> "Programming Language",
    aliases |-> <<"Py">>, related_skills |-> <<>>, parent_skills |-> <<>>,
    market_demand |-> "low", keywords |-> <<>>],
   [id |-> "react", name |-> "React Native", category |-> "Frontend Framework",
    aliases |-> <<"rn">>, related_skills |-> <<>>, parent_skills |-> <<>>,
    market_demand |-> "high", keywords |-> <<>>]}

\* the skills of NewSkills the dictionary holds under their id
Registered ==
  {skill \in NewSkills :
     skill.id \in DOMAIN ontology.val /\ ontology.val[skill.id] = skill}

\* the dictionary is as the import left it
Imported == Registered = {}

\* what the calls made after one more registration are given: the strings
\* the new skills are registered under and those of the skills they touch,
\* lists of them, and the counts of ScoreCases
RegisteredInputs ==
  [lookups |->
     {" PY\t", "py", "Python", "pypy", "react", "React", "reactjs", "rn",
      "React Native", "Svelte", "sveltejs", "zzz"},
   lists |->
     {<<"Py", "python", "PyPy">>, <<"reactjs", "RN", "React">>, <<"Sveltejs", "foo">>},
   gaps |->
     {[cv_skills |-> <<"py", "React">>, jd_skills |-> <<"Python", "rn", "svelte">>],
      [cv_skills |-> <<"Python">>, jd_skills |-> <<"py", "PyPy", "React Native">>]}]

\* counts of longer lists, whose float is not the exact percentage: 1 of 16
\* with 1 and with 4 related entries (6.55 and 7.45, a little below and a
\* little above), and 57 of 100 with 10 related entries (a little below 60)
ScoreCases ==
  {[m |-> 1, n |-> 16, k |-> 1], [m |-> 1, n |-> 16, k |-> 4],
   [m |-> 57, n |-> 100, k |-> 10]}

\* the counts a scoring step can meet: m matching and k related entries
\* among n distinct required skills
ScoreInputs ==
  {c \in [m : 0..MaxRequired, n : 1..MaxRequired, k : 0..MaxRequired] :
     c.m + c.k <= c.n}
    \cup ScoreCases

\* lines 282-299 of calculate_skill_gap on given counts
Score(c) ==
  Once(match_percentage(TRUE, c.m, c.n, c.k),
      LAMBDA p :
        [exact_percentage |-> p, match_percentage |-> RoundTenths(p),
         gap_severity |-> gap_severity(p)])

\* the state after the import of the modules
EngineInit ==
  /\ op = "idle" /\ args = <<>> /\ result = <<>>
  /\ registrations = <<>>

GetSkill ==
  /\ op = "idle"
  /\ \E skill_name \in IF Imported THEN LookupInputs ELSE RegisteredInputs.lookups :
       /\ op' = "get_skill"
       /\ args' = [skill_name |-> skill_name]
       /\ result' = get_skill(skill_name)
  /\ UNCHANGED <<registrations, storeVars>>

NormalizeSkillName ==
  /\ op = "idle"
  /\ \E skill_name \in IF Imported THEN LookupInputs ELSE RegisteredInputs.lookups :
       /\ op' = "normalize_skill_name"
       /\ args' = [skill_name |-> skill_name]
       /\ result' = normalize_skill_name(skill_name)
  /\ UNCHANGED <<registrations, storeVars>>

ExtractSkillsFromList ==
  /\ op = "idle"
  /\ \E skills_list \in IF Imported THEN ListsOver(RawEntries, MaxListLen)
                         ELSE RegisteredInputs.lists,
        source \in {"cv", "jd"} :
       /\ op' = "extract_skills_from_list"
       /\ args' = [skills_list |-> skills_list, source |-> source]
       /\ result' = extract_skills_from_list(skills_list, source)
  /\ UNCHANGED <<registrations, storeVars>>

\* the values of include_similar_jds_skills a call on the given lists is
\* made with
SimilarFor(lists) ==
  IF Len(lists.cv_skills) <= MaxSimilarCvLen THEN SimilarInputs ELSE {NoList}

CalculateSkillGap ==
  /\ op = "idle"
  /\ \E lists \in IF Imported THEN GapInputs ELSE RegisteredInputs.gaps :
     \E similar \in SimilarFor(lists) :
       /\ op' = "calculate_skill_gap"
       /\ args' = [cv_skills |-> lists.cv_skills, jd_skills |-> lists.jd_skills,
                   include_similar_jds_skills |-> similar]
       /\ result' = calculate_skill_gap(lists.cv_skills, lists.jd_skills, similar)
  /\ UNCHANGED <<registrations, storeVars>>

\* one more _register_skill(skill) after those of the module, while fewer
\* than MaxRegistered were made: the assignments to the dictionary, which
\* the calls that follow read; nothing is raised and nothing returned
RegisterSkill ==
  /\ op = "idle"
  /\ Cardinality(Registered) < MaxRegistered
  /\ \E skill \in NewSkills \ Registered :
       /\ op' = "_register_skill"
       /\ args' = [skill |-> skill]
       /\ result' = [raised |-> ""]
       /\ registrations' = Append(registrations, skill)
  /\ UNCHANGED storeVars

\* the scoring of two comparisons, side by side
ScoreStep ==
  /\ op = "idle"
  /\ \E a, b \in IF Imported THEN ScoreInputs ELSE ScoreCases :
       /\ op' = "score"
       /\ args' = <<a, b>>
       /\ result' = <<Score(a), Score(b)>>
  /\ UNCHANGED <<registrations, storeVars>>

Return ==
  /\ op # "idle"
  /\ op' = "idle" /\ args' = <<>> /\ result' = <<>>
  /\ UNCHANGED <<registrations, storeVars>>

(***************************************************************************)
(* src/rag_knowledge.py: SimpleVectorStore.                                *)
(*                                                                         *)
(* initialize() ingests the skills of the ontology, CAREER_PATHS and       *)
(* RESUME_TIPS; the model ingests the first MaxSkillDocs, MaxCareerDocs    *)
(* and MaxTipDocs of them.  The embedding service is outside the program:  *)
(* a request gives the vector of the text, or nothing (no client, or an    *)
(* exception, both turned into None by _get_embedding).  Vectors are       *)
(* pairs of natural numbers, and a cosine similarity is the float numpy    *)
(* computes for them.                                                      *)
(*                                                                         *)
(* A caller of initialize() can be overtaken by another caller between any *)
(* two of its accesses to the store: the test of is_initialized, the test  *)
(* of the client, its creation, the request of an embedding, the two       *)
(* appends of add_document and the assignment of is_initialized each are a *)
(* step.  Where the calls come one after the other the three steps of      *)
(* _get_embedding are taken as one.                                        *)
(***************************************************************************)
Callers == 1..NumCallers

\* lines 1134-1142 on the values of a dictionary: a value is kept when no
\* value before it has its id, whatever the other fields are
UniqueSkills(values) ==
  LET idx == SelectSeq([i \in 1..Len(values) |-> i],
                       LAMBDA i : \A j \in 1..(i - 1) : values[j].id # values[i].id)
  IN  [n \in 1..Len(idx) |-> values[idx[n]]]

\* get_all_skills(): the values of the dictionary, one skill for each id.
\* The callers of the store register no skill: the dictionary is the one of
\* the import
get_all_skills == UniqueSkills(OntologyValues) @@ <<>>

\* the ids of CAREER_PATHS and of RESUME_TIPS, in the order of the lists
CAREER_PATHS ==
  <<"backend_junior", "backend_mid", "backend_senior", "frontend_junior",
    "frontend_senior", "devops_mid", "fullstack_senior">>
RESUME_TIPS ==
  <<"quantify", "action_verbs", "tailored", "keywords", "projects",
    "skills_format", "summary", "achievements_not_duties">>

\* the first n elements of a sequence
FirstN(s, n) == SubSeq(s, 1, IF n < Len(s) THEN n ELSE Len(s))

\* the impact of each of RESUME_TIPS
RESUME_TIP_IMPACT ==
  <<"high", "high", "very_high", "very_high", "medium", "medium", "high",
    "very_high">>

\* the documents initialize() hands to add_document, in its order.  A
\* document's content is named by the id it is built of, and its metadata is
\* the dictionary of the skill, path or tip, named by its id
KnowledgeBase ==
  LET skills  == FirstN(get_all_skills, MaxSkillDocs)
      careers == FirstN(CAREER_PATHS, MaxCareerDocs)
      tips    == FirstN(RESUME_TIPS, MaxTipDocs)
  IN [i \in 1..Len(skills) |->
        [id |-> "skill_" \o skills[i].id, content |-> "skill_" \o skills[i].id,
         doc_type |-> "skill", metadata |-> [id |-> skills[i].id]]]
     \o [i \in 1..Len(careers) |->
        [id |-> "career_" \o careers[i], content |-> "career_" \o careers[i],
         doc_type |-> "career_path", metadata |-> [id |-> careers[i]]]]
     \o [i \in 1..Len(tips) |->
        [id |-> "tip_" \o tips[i], content |-> "tip_" \o tips[i],
         doc_type |-> "resume_tip", metadata |-> [id |-> tips[i]]]]

\* the documents a caller hands to add_document itself: a career path under
\* an id of its own, with the content of the first career path of the
\* knowledge base, and a career path with the content of norm zero
ExtraDocuments ==
  <<[id |-> "career_custom", content |-> "career_" \o CAREER_PATHS[1],
     doc_type |-> "career_path", metadata |-> [id |-> "custom"]],
    [id |-> "career_blank", content |-> "blank",
     doc_type |-> "career_path", metadata |-> [id |-> "blank"]]>>

\* every document add_document is called with: position i of a caller is
\* AllDocuments[i]
AllDocuments == KnowledgeBase \o ExtraDocuments

\* the vector the embedding service has for the content of a document: one
\* content, one vector
VectorOf(doc) ==
  IF doc.content = "blank" THEN <<0, 0>>
  ELSE LET i == CHOOSE j \in 1..Len(KnowledgeBase) :
                  KnowledgeBase[j].content = doc.content
       IN <<i, 1>>

\* the vectors the embedding service has for the queries, the vector of
\* norm zero among them
QueryVectors == {<<1, 2>>, <<3, 1>>, <<0, 0>>}

\* self._client: no client yet, or the client of the embedding service
NoClient == "None"
OpenAIClient == "OpenAI"

\* _get_client, lines 232-236: the client the store holds, and while it
\* holds none a new one when the package and the key are there
get_client(held) == IF held = NoClient THEN {NoClient, OpenAIClient} ELSE {held}

\* what _get_embedding returns with the given client for a text with the
\* given vector: None without a client or on an exception, else the vector
NoEmbedding == <<>>
get_embedding(held, vector) ==
  IF held = NoClient THEN {NoEmbedding} ELSE {vector, NoEmbedding}

\* float('nan'): what the division of numpy gives for 0.0 / 0.0, with a
\* RuntimeWarning and without an exception
NaN == [man |-> <<>>, exp |-> -1]

\* np.dot of two vectors of integers
Dot(vec1, vec2) ==
  LET sum[i \in 0..Len(vec1)] ==
        IF i = 0 THEN 0 ELSE sum[i - 1] + vec1[i] * vec2[i]
  IN sum[Len(vec1)]

\* np.linalg.norm: the square root of the float of the sum of the squares
norm(vec) == FloatSqrt(FloatOfInt(Dot(vec, vec)))

\* _cosine_similarity, line 259: the dot product over the rounded product
\* of the two rounded norms, rounded; 0.0 / 0.0 when a norm is zero
cosine_similarity(vec1, vec2) ==
  Once(FloatMul(norm(vec1), norm(vec2)),
      LAMBDA norms :
        IF norms = Zero THEN NaN
        ELSE FloatDiv(FloatOfInt(Dot(vec1, vec2)), norms))

\* _cosine_similarity of every query and every vector the embedding service
\* has for a document, the one of norm zero and one for each place of the
\* knowledge base, computed once
Similarities ==
  [q \in QueryVectors,
   d \in {<<0, 0>>}
          \cup {<<i, 1>> : i \in 1..(MaxSkillDocs + MaxCareerDocs + MaxTipDocs)} |->
     cosine_similarity(q, d)] @@ <<>>

\* _cosine_similarity as search calls it
Similarity(vec1, vec2) ==
  IF <<vec1, vec2>> \in DOMAIN Similarities THEN Similarities[vec1, vec2]
  ELSE cosine_similarity(vec1, vec2)

\* x[1] < y[1] for two entries of the results, as list.sort compares the
\* keys, two floats: every comparison with nan is false
KeyLess(x, y) ==
  /\ x.similarity # NaN
  /\ y.similarity # NaN
  /\ ~FloatLeq(y.similarity, x.similarity)

\* a list, the last entry first
Reversed(s) == [i \in 1..Len(s) |-> s[Len(s) + 1 - i]]

\* list.sort, count_run on a list of two entries or more: the length of the
\* run the list begins with, and whether it is a descending run, each entry
\* less than the one before it; any other run goes on as long as no entry is
\* less than the one before it
CountRun(s) ==
  LET descending == KeyLess(s[2], s[1])
      goes(i) == KeyLess(s[i], s[i - 1]) = descending
  IN [n |-> CHOOSE r \in 2..Len(s) :
              /\ \A i \in 3..r : goes(i)
              /\ r = Len(s) \/ ~goes(r + 1),
      descending |-> descending]

\* list.sort, the search of binarysort: where the pivot goes among
\* s[l], ..., s[r - 1], found by halving
RECURSIVE BinaryPlace(_, _, _, _)
BinaryPlace(s, pivot, l, r) ==
  IF l >= r THEN l
  ELSE IF KeyLess(pivot, s[l + (r - l) \div 2])
       THEN BinaryPlace(s, pivot, l, l + (r - l) \div 2)
       ELSE BinaryPlace(s, pivot, l + (r - l) \div 2 + 1, r)

\* list.sort, binarysort: the entries from start on, each moved down to its
\* place among the entries before it
RECURSIVE BinarySort(_, _)
BinarySort(s, start) ==
  IF start > Len(s) THEN s
  ELSE Once(BinaryPlace(s, s[start], 1, start),
           LAMBDA l :
             BinarySort(SubSeq(s, 1, l - 1) \o <<s[start]>> \o SubSeq(s, l, start - 1)
                          \o SubSeq(s, start + 1, Len(s)),
                        start + 1))

\* results.sort(key=lambda x: x[1], reverse=reverse) of CPython 3.11 for a
\* list of fewer than 64 entries: the list is reversed when reverse holds,
\* its first run is found and reversed when it is descending, the other
\* entries are inserted one by one, and the list is reversed again
sort(s, reverse) ==
  IF Len(s) < 2 THEN s
  ELSE Once(IF reverse THEN Reversed(s) ELSE s,
           LAMBDA keys :
             Once(CountRun(keys),
                 LAMBDA run :
                   Once(BinarySort(IF run.descending
                                   THEN Reversed(SubSeq(keys, 1, run.n))
                                          \o SubSeq(keys, run.n + 1, Len(keys))
                                   ELSE keys,
                                   run.n + 1),
                       LAMBDA sorted :
                         IF reverse THEN Reversed(sorted) ELSE sorted)))

\* s[:k] keeping all of s: the sensitivity case of C14
SliceAll(s, k) == s

\* s[:k] of Python
SliceTo(s, k) ==
  IF k >= 0 THEN SubSeq(s, 1, IF k < Len(s) THEN k ELSE Len(s))
  ELSE SubSeq(s, 1, IF Len(s) + k > 0 THEN Len(s) + k ELSE 0)

\* doc_type left out of a call
NoType == "None"

\* the documents of the wanted type with their similarity to the query, in
\* the order of the store: lines 281-290
Scan(query_embedding, doc_type, docs, embs) ==
  LET kept == SelectSeq([i \in 1..Len(embs) |-> i],
                        LAMBDA i : doc_type \in {NoType, ""}
                                     \/ docs[i].doc_type = doc_type)
  IN [n \in 1..Len(kept) |->
        [doc |-> docs[kept[n]],
         similarity |-> Similarity(query_embedding, embs[kept[n]])]]

\* search going on without an embedding of the query, with a vector of its
\* own: the sensitivity case of C15
search_without_test(query_embedding, top_k, doc_type, docs, embs) ==
  Once(Scan(IF query_embedding = NoEmbedding THEN <<1, 2>> ELSE query_embedding,
            doc_type, docs, embs),
      LAMBDA found : SliceTo(sort(found, TRUE), top_k))

\* search on a store that holds docs and embs, given the embedding of the
\* query: nothing without one, else the documents of the wanted type with
\* their similarity, sorted with the most similar first and cut to top_k
search(query_embedding, top_k, doc_type, docs, embs) ==
  IF query_embedding = NoEmbedding THEN <<>>
  ELSE Once(Scan(query_embedding, doc_type, docs, embs),
           LAMBDA found : SliceTo(sort(found, TRUE), top_k))

TopKInputs == {0, 1, 2}
DocTypeInputs == {NoType, "skill", "career_path"}

\* the callers of the retrieval functions
Retrievals == {"retrieve_relevant_knowledge", "retrieve_resume_tips"}

\* what retrieve_resume_tips returns for the context "general": the tips of
\* impact very_high or high, cut to top_k
HighImpactTips(top_k) ==
  LET high == SelectSeq([i \in 1..Len(RESUME_TIPS) |->
                           [tip |-> RESUME_TIPS[i], impact |-> RESUME_TIP_IMPACT[i]]],
                        LAMBDA t : t.impact \in {"very_high", "high"})
  IN SliceTo([i \in 1..Len(high) |-> [id |-> high[i].tip]], top_k)

\* [r[0].metadata for r in results]
MetadataOf(found) == [i \in 1..Len(found) |-> found[i].doc.metadata]

\* no search has returned to the caller
NoResults == [returned |-> FALSE, value |-> <<>>]

\* the function a caller is in with the arguments of its search, kept from
\* the call to the return; none between two calls
NoFrame ==
  [name |-> "none", vector |-> <<>>, top_k |-> 0, doc_type |-> NoType,
   query_embedding |-> NoEmbedding]

\* SimpleVectorStore.__init__
StoreInit ==
  /\ documents = <<>>
  /\ embeddings = <<>>
  /\ is_initialized = FALSE
  /\ client = NoClient
  /\ pc = [c \in Callers |-> "idle"]
  /\ position = [c \in Callers |-> 0]
  /\ embedding = [c \in Callers |-> NoEmbedding]
  /\ results = [c \in Callers |-> NoResults]
  /\ frame = [c \in Callers |-> NoFrame]

\* where a caller goes after the add_document of AllDocuments[i]: to the
\* next entry of initialize(), to its last line, or back when the caller
\* called add_document itself
AfterEntry(i) ==
  IF i < Len(KnowledgeBase) THEN "get_embedding"
  ELSE IF i = Len(KnowledgeBase) THEN "set_initialized"
  ELSE "returned"

\* CallInitialize entering the ingestion whatever is_initialized holds: the
\* sensitivity case of C10
CallInitializeUnguarded(c) ==
  /\ pc[c] = "idle"
  /\ pc' = [pc EXCEPT ![c] = AfterEntry(0)]
  /\ position' = [position EXCEPT ![c] = 1]
  /\ UNCHANGED <<documents, embeddings, is_initialized, client, embedding, results, frame>>
  /\ UNCHANGED engineVars

\* CallInitialize entering the ingestion again while the index is empty:
\* the sensitivity case of C27
CallInitializeWhileEmpty(c) ==
  /\ pc[c] = "idle"
  /\ IF is_initialized /\ documents # <<>>
     THEN /\ pc' = [pc EXCEPT ![c] = "already_initialized"]
          /\ UNCHANGED position
     ELSE /\ pc' = [pc EXCEPT ![c] = AfterEntry(0)]
          /\ position' = [position EXCEPT ![c] = 1]
  /\ UNCHANGED <<documents, embeddings, is_initialized, client, embedding, results, frame>>
  /\ UNCHANGED engineVars

\* initialize(), lines 302-304: the test of is_initialized; the call returns
\* at once when it holds
CallInitialize(c) ==
  /\ pc[c] = "idle"
  /\ IF is_initialized
     THEN /\ pc' = [pc EXCEPT ![c] = "already_initialized"]
          /\ UNCHANGED position
     ELSE /\ pc' = [pc EXCEPT ![c] = AfterEntry(0)]
          /\ position' = [position EXCEPT ![c] = 1]
  /\ UNCHANGED <<documents, embeddings, is_initialized, client, embedding, results, frame>>
  /\ UNCHANGED engineVars

\* a caller's own add_document(doc), of one of the given entries of
\* AllDocuments that is in the store fewer than MaxAdded times
CallAddDocumentOf(c, entries) ==
  /\ pc[c] = "idle"
  /\ \E i \in entries :
       /\ Cardinality({j \in 1..Len(documents) : documents[j] = AllDocuments[i]})
            < MaxAdded
       /\ position' = [position EXCEPT ![c] = i]
  /\ pc' = [pc EXCEPT ![c] = "get_embedding"]
  /\ UNCHANGED <<documents, embeddings, is_initialized, client, embedding, results, frame>>
  /\ UNCHANGED engineVars

\* GetEmbedding going on to the two appends without an embedding too: the
\* sensitivity case of C11
GetEmbeddingUntested(c) ==
  /\ pc[c] = "get_embedding"
  /\ \E held \in get_client(client) :
       \E e \in get_embedding(held, VectorOf(AllDocuments[position[c]])) :
         /\ client' = held
         /\ embedding' = [embedding EXCEPT ![c] = e]
  /\ pc' = [pc EXCEPT ![c] = "append_document"]
  /\ UNCHANGED <<documents, embeddings, is_initialized, position, results, frame>>
  /\ UNCHANGED engineVars

\* GetEmbedding letting the failure of the request end the call: the
\* sensitivity case of C25
GetEmbeddingRaising(c) ==
  /\ pc[c] = "get_embedding"
  /\ \E held \in get_client(client) :
       \E e \in get_embedding(held, VectorOf(AllDocuments[position[c]])) :
         /\ client' = held
         /\ IF e # NoEmbedding
            THEN /\ embedding' = [embedding EXCEPT ![c] = e]
                 /\ pc' = [pc EXCEPT ![c] = "append_document"]
                 /\ UNCHANGED position
            ELSE /\ pc' = [pc EXCEPT ![c] = "returned"]
                 /\ position' = [position EXCEPT ![c] = 0]
                 /\ UNCHANGED embedding
  /\ UNCHANGED <<documents, embeddings, is_initialized, results, frame>>
  /\ UNCHANGED engineVars

\* add_document, line 263, as one step of a caller that no other caller
\* overtakes: _get_client and the request of the embedding of the document's
\* content; a document without one is left out
GetEmbedding(c) ==
  /\ pc[c] = "get_embedding"
  /\ \E held \in get_client(client) :
       \E e \in get_embedding(held, VectorOf(AllDocuments[position[c]])) :
         /\ client' = held
         /\ IF e # NoEmbedding
            THEN /\ embedding' = [embedding EXCEPT ![c] = e]
                 /\ pc' = [pc EXCEPT ![c] = "append_document"]
                 /\ UNCHANGED position
            ELSE /\ pc' = [pc EXCEPT ![c] = AfterEntry(position[c])]
                 /\ position' = [position EXCEPT ![c] = position[c] + 1]
                 /\ UNCHANGED embedding
  /\ UNCHANGED <<documents, embeddings, is_initialized, results, frame>>
  /\ UNCHANGED engineVars

\* add_document, line 263, step by step for callers that run side by side.
\* _get_client, lines 232-234: a client is made when the store holds none
\* and the package and the key are there
EmbeddingTestClient(c) ==
  /\ pc[c] = "get_embedding"
  /\ \E next \in IF client = NoClient
                 THEN {"embedding_create_client", "embedding_request"}
                 ELSE {"embedding_request"} :
       pc' = [pc EXCEPT ![c] = next]
  /\ UNCHANGED <<documents, embeddings, is_initialized, client, position, embedding,
                 results, frame>>
  /\ UNCHANGED engineVars

\* _get_client, line 235: self._client = openai.OpenAI(api_key=api_key)
EmbeddingCreateClient(c) ==
  /\ pc[c] = "embedding_create_client"
  /\ client' = OpenAIClient
  /\ pc' = [pc EXCEPT ![c] = "embedding_request"]
  /\ UNCHANGED <<documents, embeddings, is_initialized, position, embedding, results,
                 frame>>
  /\ UNCHANGED engineVars

\* _get_client, line 236, and _get_embedding, lines 240-253: the request of
\* the embedding of the document's content with the client the store holds,
\* which the caller waits for; add_document leaves a document without an
\* embedding out (line 264)
EmbeddingRequest(c) ==
  /\ pc[c] = "embedding_request"
  /\ \E e \in get_embedding(client, VectorOf(AllDocuments[position[c]])) :
       IF e # NoEmbedding
       THEN /\ embedding' = [embedding EXCEPT ![c] = e]
            /\ pc' = [pc EXCEPT ![c] = "append_document"]
            /\ UNCHANGED position
       ELSE /\ pc' = [pc EXCEPT ![c] = AfterEntry(position[c])]
            /\ position' = [position EXCEPT ![c] = position[c] + 1]
            /\ UNCHANGED embedding
  /\ UNCHANGED <<documents, embeddings, is_initialized, client, results, frame>>
  /\ UNCHANGED engineVars

\* add_document, line 265: self.documents.append(doc)
AppendDocument(c) ==
  /\ pc[c] = "append_document"
  /\ documents' = Append(documents, AllDocuments[position[c]])
  /\ pc' = [pc EXCEPT ![c] = "append_embedding"]
  /\ UNCHANGED <<embeddings, is_initialized, client, position, embedding, results, frame>>
  /\ UNCHANGED engineVars

\* add_document, line 266: self.embeddings.append(embedding)
AppendEmbedding(c) ==
  /\ pc[c] = "append_embedding"
  /\ embeddings' = Append(embeddings, embedding[c])
  /\ embedding' = [embedding EXCEPT ![c] = NoEmbedding]
  /\ pc' = [pc EXCEPT ![c] = AfterEntry(position[c])]
  /\ position' = [position EXCEPT ![c] = position[c] + 1]
  /\ UNCHANGED <<documents, is_initialized, client, results, frame>>
  /\ UNCHANGED engineVars

\* initialize(), line 365: self.is_initialized = True, and the return: to
\* the caller, or to the retrieval function that called initialize()
SetInitialized(c) ==
  /\ pc[c] = "set_initialized"
  /\ is_initialized' = TRUE
  /\ pc' = [pc EXCEPT ![c] = IF frame[c].name \in Retrievals
                             THEN "retrieve_search" ELSE "returned"]
  /\ position' = [position EXCEPT ![c] = 0]
  /\ UNCHANGED <<documents, embeddings, client, embedding, results, frame>>
  /\ UNCHANGED engineVars

\* search() as one step: the embedding of the query, the loop over the
\* store, the sort and the cut
Search(c) ==
  /\ pc[c] = "idle"
  /\ \E vector \in QueryVectors, top_k \in TopKInputs, doc_type \in DocTypeInputs :
       \E held \in get_client(client) :
         \E query_embedding \in get_embedding(held, vector) :
           /\ client' = held
           /\ frame' = [frame EXCEPT
                          ![c] = [name |-> "search", vector |-> vector,
                                  top_k |-> top_k, doc_type |-> doc_type,
                                  query_embedding |-> query_embedding]]
           /\ results' = [results EXCEPT
                            ![c] = [returned |-> TRUE,
                                    value |-> search(query_embedding, top_k, doc_type,
                                                     documents, embeddings)]]
  /\ pc' = [pc EXCEPT ![c] = "returned"]
  /\ UNCHANGED <<documents, embeddings, is_initialized, position, embedding>>
  /\ UNCHANGED engineVars

\* the caller has the outcome of its call and is free to call again
ReturnToCaller(c) ==
  /\ pc[c] \in {"already_initialized", "returned"}
  /\ pc' = [pc EXCEPT ![c] = "idle"]
  /\ position' = [position EXCEPT ![c] = 0]
  /\ results' = [results EXCEPT ![c] = NoResults]
  /\ frame' = [frame EXCEPT ![c] = NoFrame]
  /\ UNCHANGED <<documents, embeddings, is_initialized, client, embedding>>
  /\ UNCHANGED engineVars

\* retrieve_relevant_knowledge(query, top_k), and retrieve_resume_tips(
\* context, top_k) with a context other than "general": lines 427 and 463,
\* the test of is_initialized
CallRetrieve(c) ==
  /\ pc[c] = "idle"
  /\ \E name \in Retrievals, vector \in QueryVectors, top_k \in TopKInputs :
       frame' = [frame EXCEPT
                   ![c] = [name |-> name, vector |-> vector, top_k |-> top_k,
                           doc_type |-> IF name = "retrieve_resume_tips"
                                        THEN "resume_tip" ELSE NoType,
                           query_embedding |-> NoEmbedding]]
  /\ pc' = [pc EXCEPT ![c] = IF is_initialized THEN "retrieve_search"
                             ELSE "retrieve_initialize"]
  /\ UNCHANGED <<documents, embeddings, is_initialized, client, position, embedding,
                 results>>
  /\ UNCHANGED engineVars

\* retrieve_resume_tips("general", top_k), lines 456-458: the tips of high
\* impact, the store left alone
RetrieveGeneralTips(c) ==
  /\ pc[c] = "idle"
  /\ \E top_k \in TopKInputs :
       /\ frame' = [frame EXCEPT
                      ![c] = [NoFrame EXCEPT !.name = "retrieve_resume_tips",
                                             !.top_k = top_k]]
       /\ results' = [results EXCEPT
                        ![c] = [returned |-> TRUE, value |-> HighImpactTips(top_k)]]
  /\ pc' = [pc EXCEPT ![c] = "returned"]
  /\ UNCHANGED <<documents, embeddings, is_initialized, client, position, embedding>>
  /\ UNCHANGED engineVars

\* lines 428 and 464: store.initialize() called by a retrieval function,
\* with its own test of is_initialized
RetrieveInitialize(c) ==
  /\ pc[c] = "retrieve_initialize"
  /\ IF is_initialized
     THEN /\ pc' = [pc EXCEPT ![c] = "retrieve_search"]
          /\ UNCHANGED position
     ELSE /\ pc' = [pc EXCEPT ![c] = AfterEntry(0)]
          /\ position' = [position EXCEPT ![c] = 1]
  /\ UNCHANGED <<documents, embeddings, is_initialized, client, embedding, results, frame>>
  /\ UNCHANGED engineVars

\* lines 430 and 466-467: store.search(...) called by a retrieval function;
\* retrieve_resume_tips returns the metadata of what is found
RetrieveSearch(c) ==
  /\ pc[c] = "retrieve_search"
  /\ \E held \in get_client(client) :
       \E query_embedding \in get_embedding(held, frame[c].vector) :
         /\ client' = held
         /\ frame' = [frame EXCEPT ![c].query_embedding = query_embedding]
         /\ results' = [results EXCEPT
                          ![c] = [returned |-> TRUE,
                                  value |-> Once(search(query_embedding, frame[c].top_k,
                                                        frame[c].doc_type, documents,
                                                        embeddings),
                                                LAMBDA found :
                                                  IF frame[c].name = "retrieve_resume_tips"
                                                  THEN MetadataOf(found) ELSE found)]]
  /\ pc' = [pc EXCEPT ![c] = "returned"]
  /\ UNCHANGED <<documents, embeddings, is_initialized, position, embedding>>
  /\ UNCHANGED engineVars

(***************************************************************************)
(* search() step by step, for callers that run side by side: the test of   *)
(* self._client, the creation of the client, the request of the query's    *)
(* embedding, and the loop over the store with the sort and the cut.       *)
(***************************************************************************)
\* the call of search() with a query, a top_k and a type of the given sets
SearchBeginWith(c, vectors, top_ks, doc_types) ==
  /\ pc[c] = "idle"
  /\ \E vector \in vectors, top_k \in top_ks, doc_type \in doc_types :
       frame' = [frame EXCEPT
                   ![c] = [name |-> "search", vector |-> vector, top_k |-> top_k,
                           doc_type |-> doc_type, query_embedding |-> NoEmbedding]]
  /\ pc' = [pc EXCEPT ![c] = "search_test_client"]
  /\ UNCHANGED <<documents, embeddings, is_initialized, client, position, embedding,
                 results>>
  /\ UNCHANGED engineVars

\* _get_client, lines 232-234: a client is made when the store holds none
\* and the package and the key are there
SearchTestClient(c) ==
  /\ pc[c] = "search_test_client"
  /\ \E next \in IF client = NoClient
                 THEN {"search_create_client", "search_request"}
                 ELSE {"search_request"} :
       pc' = [pc EXCEPT ![c] = next]
  /\ UNCHANGED <<documents, embeddings, is_initialized, client, position, embedding,
                 results, frame>>
  /\ UNCHANGED engineVars

\* _get_client, line 235: self._client = openai.OpenAI(api_key=api_key)
SearchCreateClient(c) ==
  /\ pc[c] = "search_create_client"
  /\ client' = OpenAIClient
  /\ pc' = [pc EXCEPT ![c] = "search_request"]
  /\ UNCHANGED <<documents, embeddings, is_initialized, position, embedding, results,
                 frame>>
  /\ UNCHANGED engineVars

\* _get_client, line 236, and _get_embedding, lines 240-253: the request of
\* the query's embedding with the client the store holds; search() returns
\* the empty list when there is none (lines 278-279)
SearchRequestEmbedding(c) ==
  /\ pc[c] = "search_request"
  /\ \E query_embedding \in get_embedding(client, frame[c].vector) :
       /\ frame' = [frame EXCEPT ![c].query_embedding = query_embedding]
       /\ IF query_embedding = NoEmbedding
          THEN /\ results' = [results EXCEPT
                                ![c] = [returned |-> TRUE, value |-> <<>>]]
               /\ pc' = [pc EXCEPT ![c] = "returned"]
          ELSE /\ pc' = [pc EXCEPT ![c] = "search_scan"]
               /\ UNCHANGED results
  /\ UNCHANGED <<documents, embeddings, is_initialized, client, position, embedding>>
  /\ UNCHANGED engineVars

\* SearchScan sorting the two lists of the store in place: the sensitivity
\* case of C16
SearchScanInPlace(c) ==
  /\ pc[c] = "search_scan"
  /\ LET found == search(frame[c].query_embedding, Len(documents), NoType,
                         documents, embeddings)
     IN /\ documents' = [i \in 1..Len(found) |-> found[i].doc]
        /\ embeddings' = [i \in 1..Len(found) |-> VectorOf(found[i].doc)]
        /\ results' = [results EXCEPT
                         ![c] = [returned |-> TRUE,
                                 value |-> search(frame[c].query_embedding,
                                                  frame[c].top_k, frame[c].doc_type,
                                                  documents, embeddings)]]
  /\ pc' = [pc EXCEPT ![c] = "returned"]
  /\ UNCHANGED <<is_initialized, client, position, embedding, frame>>
  /\ UNCHANGED engineVars

\* search(), lines 281-295: the loop over self.embeddings, the sort and the
\* cut
SearchScan(c) ==
  /\ pc[c] = "search_scan"
  /\ results' = [results EXCEPT
                   ![c] = [returned |-> TRUE,
                           value |-> search(frame[c].query_embedding, frame[c].top_k,
                                            frame[c].doc_type, documents, embeddings)]]
  /\ pc' = [pc EXCEPT ![c] = "returned"]
  /\ UNCHANGED <<documents, embeddings, is_initialized, client, position, embedding,
                 frame>>
  /\ UNCHANGED engineVars

(***************************************************************************)
(* Specifications: the calls of the skill engine, and the callers of the   *)
(* vector store.                                                           *)
(***************************************************************************)
vars == <<engineVars, storeVars>>
Init == EngineInit /\ StoreInit
Next ==
  \/ GetSkill
  \/ NormalizeSkillName
  \/ ExtractSkillsFromList
  \/ CalculateSkillGap
  \/ RegisterSkill
  \/ ScoreStep
  \/ Return
Spec == Init /\ [][Next]_vars

\* callers of initialize(), add_document and search() side by side, every
\* call step by step: add_document of the first of the callers' own
\* documents, and the search of the two documents most similar to one query,
\* of any type
StoreNext ==
  \E c \in Callers :
    \/ CallInitialize(c)
    \/ CallAddDocumentOf(c, {Len(KnowledgeBase) + 1})
    \/ EmbeddingTestClient(c)
    \/ EmbeddingCreateClient(c)
    \/ EmbeddingRequest(c)
    \/ AppendDocument(c)
    \/ AppendEmbedding(c)
    \/ SetInitialized(c)
    \/ SearchBeginWith(c, {<<1, 2>>}, {2}, {NoType})
    \/ SearchTestClient(c)
    \/ SearchCreateClient(c)
    \/ SearchRequestEmbedding(c)
    \/ SearchScan(c)
    \/ ReturnToCaller(c)
StoreSpec == Init /\ [][StoreNext]_vars

\* the server handles one request at a time: a caller enters and goes on
\* while no other caller is in a call
Alone(c) == \A d \in Callers \ {c} : pc[d] = "idle"

\* the store and the retrieval functions, called one call after the other;
\* add_document of any of the callers' own documents
RetrieverNext ==
  \E c \in Callers :
    \/ Alone(c) /\ CallInitialize(c)
    \/ Alone(c) /\ CallAddDocumentOf(c, (Len(KnowledgeBase) + 1)..Len(AllDocuments))
    \/ Alone(c) /\ GetEmbedding(c)
    \/ Alone(c) /\ AppendDocument(c)
    \/ Alone(c) /\ AppendEmbedding(c)
    \/ Alone(c) /\ SetInitialized(c)
    \/ Alone(c) /\ Search(c)
    \/ Alone(c) /\ CallRetrieve(c)
    \/ Alone(c) /\ RetrieveGeneralTips(c)
    \/ Alone(c) /\ RetrieveInitialize(c)
    \/ Alone(c) /\ RetrieveSearch(c)
    \/ Alone(c) /\ ReturnToCaller(c)
RetrieverSpec == Init /\ [][RetrieverNext]_vars

\* a step of the call under way: initialize() and add_document are
\* synchronous code, a call that has begun runs on to its return
RunningStep ==
  \E c \in Callers :
    \/ Alone(c) /\ GetEmbedding(c)
    \/ Alone(c) /\ AppendDocument(c)
    \/ Alone(c) /\ AppendEmbedding(c)
    \/ Alone(c) /\ SetInitialized(c)

\* the sequential calls, with every call that has begun running on
RetrieverFairSpec == Init /\ [][RetrieverNext]_vars /\ WF_vars(RunningStep)

\* one initialize() on its own, then callers of search() side by side on the
\* initialized store
SearchNext ==
  \E c \in Callers :
    \/ Alone(c) /\ ~is_initialized /\ CallInitialize(c)
    \/ Alone(c) /\ GetEmbedding(c)
    \/ Alone(c) /\ AppendDocument(c)
    \/ Alone(c) /\ AppendEmbedding(c)
    \/ Alone(c) /\ SetInitialized(c)
    \/ is_initialized /\ SearchBeginWith(c, QueryVectors, TopKInputs, DocTypeInputs)
    \/ SearchTestClient(c)
    \/ SearchCreateClient(c)
    \/ SearchRequestEmbedding(c)
    \/ SearchScan(c)
    \/ ReturnToCaller(c)
SearchSpec == Init /\ [][SearchNext]_vars

(***************************************************************************)
(* Properties of the skill engine.                                         *)
(***************************************************************************)
\* a call of calculate_skill_gap has returned a report
GapReturned == op = "calculate_skill_gap" /\ result.raised = ""

\* the normalized names extract_skills_from_list produces for a list
NormalizedNames(skills_list, source) ==
  LET extracted == extract_skills_from_list(skills_list, source)
  IN {extracted[i].normalized_name : i \in 1..Len(extracted)}

\* C1: in every report calculate_skill_gap returns, matching_skills and
\* missing_skills together are exactly the normalized names of the required
\* list, and no name is in both.
C1_MatchingMissingPartition ==
  GapReturned =>
    /\ result.matching_skills \cup result.missing_skills
         = NormalizedNames(args.jd_skills, "jd")
    /\ result.matching_skills \cap result.missing_skills = {}

\* a report with a matching and a missing skill
C1_Witness ==
  /\ GapReturned
  /\ result.matching_skills # {}
  /\ result.missing_skills # {}

\* C2: for a required list whose normalized set is empty (the empty list, or
\* a list of empty and blank strings only) calculate_skill_gap returns a
\* report with match_percentage 100, severity "low" and no missing skill,
\* and it raises nothing; an empty candidate list raises nothing either.
C2_EmptyRequiredIsFullMatch ==
  op = "calculate_skill_gap" =>
    /\ NormalizedNames(args.jd_skills, "jd") = {} =>
         /\ result.raised = ""
         /\ result.match_percentage = 1000
         /\ result.gap_severity = "low"
         /\ result.missing_skills = {}
    /\ args.cv_skills = <<>> => result.raised = ""

\* C3: in every report calculate_skill_gap returns, match_percentage is 100
\* whenever missing_skills is empty, the empty required list included.
C3_NothingMissingIsFullMatch ==
  (GapReturned /\ result.missing_skills = {}) =>
    /\ result.match_percentage = 1000
    /\ result.exact_percentage = FloatOfInt(100)

\* a report for a required list with skills, none of them missing
C3_Witness ==
  /\ GapReturned
  /\ result.missing_skills = {}
  /\ result.matching_skills # {}

\* the lower-cased canonical name, aliases and keywords of every skill of
\* the table
TableLowered ==
  [i \in 1..Len(SKILL_TABLE) |->
     [name     |-> Lower(SKILL_TABLE[i].name),
      aliases  |-> {Lower(a) : a \in SeqToSet(SKILL_TABLE[i].aliases)},
      keywords |-> {Lower(k) : k \in SeqToSet(SKILL_TABLE[i].keywords)}]] @@ <<>>

\* the skills of the table with the given lower-cased string as canonical
\* name, as alias, as keyword
SkillsNamed(n) == {i \in 1..Len(SKILL_TABLE) : TableLowered[i].name = n}
SkillsWithAlias(n) == {i \in 1..Len(SKILL_TABLE) : n \in TableLowered[i].aliases}
SkillsWithKeyword(n) == {i \in 1..Len(SKILL_TABLE) : n \in TableLowered[i].keywords}

\* C4: get_skill matches the trimmed, lower-cased name against canonical
\* names, then aliases, then keywords, in that priority over the whole
\* table: a skill whose canonical name is the string is the result, else a
\* skill with the string as alias wins over any keyword match, and the
\* result is None only when no name, alias or keyword is the string.  The
\* table is that of the module, the dictionary as the import left it.
C4_NameThenAliasThenKeyword ==
  (op = "get_skill" /\ Imported) =>
    LET n == Strip(Lower(args.skill_name)) IN
    /\ \A i \in SkillsNamed(n) : result = SKILL_TABLE[i]
    /\ (SkillsNamed(n) = {} /\ SkillsWithAlias(n) # {}) =>
         \E i \in SkillsWithAlias(n) : result = SKILL_TABLE[i]
    /\ result = None =>
         SkillsNamed(n) \cup SkillsWithAlias(n) \cup SkillsWithKeyword(n) = {}

\* C5: for every skill S of the table of the module and every alias a of S,
\* normalizing a and normalizing S.name give the same name, S.name.
C5_AliasIdempotence ==
  (op = "normalize_skill_name" /\ Imported) =>
    \A i \in 1..Len(SKILL_TABLE) :
      args.skill_name \in {SKILL_TABLE[i].name} \cup SeqToSet(SKILL_TABLE[i].aliases)
        => result = SKILL_TABLE[i].name

\* the percentage p, a float, is the integer t or more
Above(p, t) == FloatLeq(FloatOfInt(t), p)

\* the band of a percentage p: lower bounds 80, 60 and 40, each inclusive
SeverityBand(p) ==
  CASE Above(p, 80) -> "low"
    [] Above(p, 60) /\ ~Above(p, 80) -> "medium"
    [] Above(p, 40) /\ ~Above(p, 60) -> "high"
    [] ~Above(p, 40) -> "critical"

\* how favourable a severity is
Favourability(severity) ==
  CASE severity = "critical" -> 0
    [] severity = "high" -> 1
    [] severity = "medium" -> 2
    [] severity = "low" -> 3

\* C6: gap_severity is the band of the match percentage, with lower bounds
\* 80 ("low"), 60 ("medium") and 40 ("high") inclusive and "critical" below,
\* so of two comparisons the one with the higher percentage never has the
\* less favourable severity.
C6_SeverityBands ==
  /\ GapReturned => result.gap_severity = SeverityBand(result.exact_percentage)
  /\ op = "score" =>
       /\ \A i \in 1..2 :
            result[i].gap_severity = SeverityBand(result[i].exact_percentage)
       /\ FloatLeq(result[1].exact_percentage, result[2].exact_percentage) =>
            Favourability(result[1].gap_severity)
              <= Favourability(result[2].gap_severity)

\* two scorings, the second of exactly 80 percent and "low", the first lower
\* and "medium"
C6_Witness ==
  /\ op = "score"
  /\ result[2].exact_percentage = FloatOfInt(80)
  /\ result[2].gap_severity = "low"
  /\ result[1].gap_severity = "medium"

\* the entries of a list that are not dropped, by position
KeptEntries(skills_list) ==
  {i \in 1..Len(skills_list) : Strip(skills_list[i]) # ""}

\* the normalized name of one raw string
NameOf(raw_skill) == EntryRecord(Strip(raw_skill), "cv").normalized_name

\* the first kept position whose entry has the normalized name, given the
\* normalized name of every kept entry
FirstSeen(entry_names, normalized_name) ==
  CHOOSE i \in DOMAIN entry_names :
    /\ entry_names[i] = normalized_name
    /\ \A j \in DOMAIN entry_names : entry_names[j] = normalized_name => i <= j

\* C7: extract_skills_from_list returns one record per distinct normalized
\* name, names compared without regard to case, in the order in which the
\* names are first seen in the list, the empty and blank entries dropped.
C7_DedupFirstSeenOrder ==
  op = "extract_skills_from_list" =>
    LET skills_list == args.skills_list
        entry_names == [i \in KeptEntries(skills_list) |-> NameOf(skills_list[i])]
        names == [i \in 1..Len(result) |-> result[i].normalized_name]
        first == [a \in 1..Len(result) |-> FirstSeen(entry_names, names[a])]
    IN /\ \A a, b \in 1..Len(result) :
            Lower(names[a]) = Lower(names[b]) => a = b
       /\ SeqToSet(names) = {entry_names[i] : i \in DOMAIN entry_names}
       /\ \A a, b \in 1..Len(result) : a < b => first[a] < first[b]
       /\ \A a \in 1..Len(result) :
            result[a].raw_name = Strip(skills_list[first[a]])

\* a list of three entries, the first and the third written differently and
\* of one normalized name, the second of another name
C7_Witness ==
  /\ op = "extract_skills_from_list"
  /\ Len(args.skills_list) = 3
  /\ args.skills_list[1] # args.skills_list[3]
  /\ KeptEntries(args.skills_list) = {1, 2, 3}
  /\ Len(result) = 2
  /\ result[1].normalized_name = NameOf(args.skills_list[3])
  /\ result[2].normalized_name = NameOf(args.skills_list[2])

\* the skills of the table that hold the lower-cased string as id, canonical
\* name, alias or keyword
Resolving(n) ==
  {i \in 1..Len(SKILL_TABLE) : SKILL_TABLE[i].id = n}
    \cup SkillsNamed(n) \cup SkillsWithAlias(n) \cup SkillsWithKeyword(n)

\* C8: the record of a raw string the ontology resolves carries the resolved
\* skill's canonical name and category and in_ontology true ("reactjs" gives
\* "React"); the record of a string it does not resolve carries the
\* title-cased string, category "Other", confidence 0.5 and in_ontology
\* false.  The ontology is that of the module, as the import left it.
C8_SingleNormalization ==
  (op = "extract_skills_from_list" /\ Imported) =>
    \A a \in 1..Len(result) :
      LET rec == result[a]
          resolving == Resolving(Strip(Lower(rec.raw_name)))
      IN /\ resolving # {} =>
              /\ \E i \in resolving :
                   /\ rec.normalized_name = SKILL_TABLE[i].name
                   /\ rec.category = SKILL_TABLE[i].category
              /\ rec.in_ontology
         /\ resolving = {} =>
              /\ rec.normalized_name = Title(rec.raw_name)
              /\ rec.category = "Other"
              /\ rec.confidence = 50
              /\ ~rec.in_ontology
         /\ rec.raw_name = "reactjs" => rec.normalized_name = "React"
         /\ rec.raw_name = "foo BAR" => rec.normalized_name = "Foo Bar"

\* a list with "reactjs", resolved to "React", and "foo BAR", not resolved
C8_Witness ==
  /\ op = "extract_skills_from_list"
  /\ \E a, b \in 1..Len(result) :
       /\ result[a].raw_name = "reactjs" /\ result[a].in_ontology
       /\ result[a].normalized_name = "React"
       /\ result[b].raw_name = "foo BAR" /\ ~result[b].in_ontology

\* the keys a registration assigns that the dictionary holds for another
\* skill
Collisions(dict, skill) ==
  {k \in SeqToSet(RegisteredKeys(skill)) :
     k \in DOMAIN dict.val /\ dict.val[k].id # skill.id}

\* C17: building the ontology guarantees that no two distinct skills claim
\* one alias: a registration of a skill whose alias (or id) is claimed by
\* another skill is flagged as an error of the build and the ontology does
\* not become ready; no registration silently replaces another.
C17_CollisionIsBuildError ==
  [][(op = "idle" /\ op' = "_register_skill") =>
       /\ Collisions(ontology, args'.skill) # {} => result'.raised # ""
       /\ result'.raised = "" =>
            \A k \in DOMAIN ontology.val : ontology'.val[k] = ontology.val[k]]_vars

\* C18: in the table of registered skills every alias and every keyword
\* belongs to exactly one skill: no string, compared without regard to
\* case, is listed as alias or keyword by two distinct skills.
C18_AliasesAndKeywordsUnique ==
  (op = "get_skill" /\ Imported) =>
    LET n == Strip(Lower(args.skill_name))
    IN Cardinality(SkillsWithAlias(n) \cup SkillsWithKeyword(n)) <= 1

\* the lower-cased normalized names of the candidate's list
CandidateSet == {Lower(n) : n \in NormalizedNames(args.cv_skills, "cv")}

\* the candidate has the skill a parent string denotes: the string resolves
\* to a skill, by id, canonical name or alias, whose canonical name is in the
\* candidate's normalized set
CandidateHas(parent) ==
  Once(get_skill(parent),
       LAMBDA skill : skill # None /\ Lower(skill.name) \in CandidateSet)

\* C19: quick_wins is exactly the set of the missing skills with a parent
\* skill in the candidate's normalized set: a missing skill is listed if and
\* only if one of its parent_skills denotes a skill the candidate has.
C19_QuickWinsExact ==
  GapReturned =>
    result.quick_wins
      = {s \in result.missing_skills :
           Once(get_skill(s),
                LAMBDA skill :
                  /\ skill # None
                  /\ \E i \in 1..Len(skill.parent_skills) :
                       CandidateHas(skill.parent_skills[i]))}

\* calculate_skill_gap has returned a report for the lists of the module's
\* own test
ScenarioReturned ==
  /\ GapReturned
  /\ args.cv_skills
       = <<"Python", "Django", "PostgreSQL", "Git", "Docker", "REST API", "Redis">>
  /\ args.jd_skills
       = <<"Python", "Go", "Kubernetes", "AWS", "Microservices", "Redis", "Kafka",
           "Docker">>

\* the float p is the fraction num / den to within 2^-40, for
\* 0 <= num < 2^30 and 0 < den <= 2^15: with p = man * 2^exp and s places
\* to clear a negative exp,
\*   |man * den * 2^(exp + s) - num * 2^s| * 2^40 <= den * 2^s
Near(p, num, den) ==
  LET s == IF p.exp < 0 THEN -p.exp ELSE 0
      a == ShiftLeft(NatMulSmall(p.man, den, 0), p.exp + s + 40)
      b == ShiftLeft(NatOf(num), s + 40)
      t == ShiftLeft(NatOf(den), s)
  IN NatLeq(a, NatAdd(b, t, 0)) /\ NatLeq(b, NatAdd(a, t, 0))

\* the percentage and the severity the scenario is to have: 37.5 and 0.3 for
\* each entry of related_missing, "critical" or "high"
ScenarioScore ==
  LET k == Cardinality(DOMAIN result.related_missing)
  IN /\ Near(result.exact_percentage, 375 + 3 * k, 10)
     /\ result.match_percentage = 375 + 3 * k
     /\ result.gap_severity \in {"critical", "high"}

\* C20, as it is stated: for the scenario calculate_skill_gap reports
\* matching = {Python, Redis, Docker}, missing = {Go, Kubernetes, AWS,
\* Microservices, Kafka}, a match_percentage of 37.5 plus 0.3 for each
\* related-coverage entry, and severity "critical" or "high".
C20_Stated ==
  ScenarioReturned =>
    /\ result.matching_skills = {"Python", "Redis", "Docker"}
    /\ result.missing_skills = {"Go", "Kubernetes", "AWS", "Microservices", "Kafka"}
    /\ ScenarioScore

\* C20, amended: as stated, with the required "Kafka" reported in
\* missing_skills under its canonical name, "Apache Kafka".
C20_Scenario ==
  ScenarioReturned =>
    /\ result.matching_skills = {"Python", "Redis", "Docker"}
    /\ result.missing_skills
         = {"Go", "Kubernetes", "AWS", "Microservices", "Apache Kafka"}
    /\ ScenarioScore

\* the report of the scenario, with three related-coverage entries and a
\* match_percentage of 38.4
C20_Witness ==
  /\ ScenarioReturned
  /\ Cardinality(DOMAIN result.related_missing) = 3
  /\ result.match_percentage = 384
  /\ result.gap_severity = "critical"


\* the normalized required set: the distinct lower-cased normalized names of
\* the required list
RequiredSet == {Lower(n) : n \in NormalizedNames(args.jd_skills, "jd")}

\* the missing skills of the report with an entry in related_missing
CoveredMissing == result.missing_skills \cap DOMAIN result.related_missing

\* C21: for a non-empty normalized required set the match percentage is
\* min(100, 100 * |matching| / |required set| + 0.3 * (number of missing
\* skills with a related-coverage entry)), the required set counting the
\* distinct normalized required skills and not the raw list entries; the
\* float the code computes is within 2^-40 of that value.
C21_PercentageFormula ==
  GapReturned =>
    LET required == RequiredSet
        m == Cardinality(result.matching_skills)
        n == Cardinality(required)
        k == Cardinality(CoveredMissing)
        p == result.exact_percentage
    IN required # {} =>
         IF 1000 * m + 3 * k * n >= 1000 * n
         THEN Near(p, 100, 1)
         ELSE Near(p, 1000 * m + 3 * k * n, 10 * n)

\* a report for a required list with more entries than distinct normalized
\* skills, one of them missing with a related-coverage entry: 0.3 percent
C21_Witness ==
  /\ GapReturned
  /\ Len(args.jd_skills) > Cardinality(RequiredSet)
  /\ Cardinality(CoveredMissing) = 1
  /\ result.matching_skills = {}
  /\ Near(result.exact_percentage, 3, 10)

\* the skills of the table a related or parent string denotes: those with
\* the string as id, canonical name or alias
Denoted(s) ==
  {i \in 1..Len(SKILL_TABLE) : SKILL_TABLE[i].id = Lower(s)}
    \cup SkillsNamed(Lower(s)) \cup SkillsWithAlias(Lower(s))

\* the related skills of the skill with the canonical name given that the
\* candidate has, under the names of the candidate's normalized list
RelatedHeld(name, cv_names) ==
  {c \in cv_names :
     \E i \in SkillsNamed(Lower(name)) :
       \E j \in 1..Len(SKILL_TABLE[i].related_skills) :
         \E d \in Denoted(SKILL_TABLE[i].related_skills[j]) :
           TableLowered[d].name = Lower(c)}

\* C22: related_missing has an entry for a missing skill if and only if one
\* of that skill's related skills is in the candidate's normalized set, the
\* entry lists exactly those related candidate skills, and a skill with an
\* entry stays in missing_skills and out of matching_skills.  The related
\* skills are those of the table of the module.
C22_RelatedCoverage ==
  (GapReturned /\ Imported) =>
    LET cv_names == NormalizedNames(args.cv_skills, "cv")
        jd_names == NormalizedNames(args.jd_skills, "jd")
    IN /\ DOMAIN result.related_missing
            = {s \in result.missing_skills : RelatedHeld(s, cv_names) # {}}
       /\ \A s \in DOMAIN result.related_missing :
            result.related_missing[s] = RelatedHeld(s, cv_names)
       /\ result.missing_skills = {n \in jd_names : Lower(n) \notin CandidateSet}
       /\ result.matching_skills = {n \in jd_names : Lower(n) \in CandidateSet}

\* the category of the skill of the table with the canonical name given,
\* "Other" when the table has no such skill
OwnCategory(name) ==
  IF SkillsNamed(Lower(name)) = {} THEN "Other"
  ELSE SKILL_TABLE[CHOOSE i \in SkillsNamed(Lower(name)) : TRUE].category

\* the buckets place every one of the skills in exactly one bucket, that of
\* its own category, and hold nothing else
BucketsOf(by_category, skills) ==
  /\ \A s \in skills :
       {cat \in DOMAIN by_category : s \in by_category[cat]} = {OwnCategory(s)}
  /\ UNION {by_category[cat] : cat \in DOMAIN by_category} = skills

\* C23: matching_by_category and missing_by_category place every matching,
\* respectively missing, skill in exactly one bucket, the bucket of the
\* category of the ontology skill its name was normalized to, "Other" for a
\* name without ontology entry, and the buckets together hold exactly the
\* matching, respectively missing, skills.  The ontology is that of the
\* module, as the import left it.
C23_CategoryBuckets ==
  (GapReturned /\ Imported) =>
    /\ BucketsOf(result.matching_by_category, result.matching_skills)
    /\ BucketsOf(result.missing_by_category, result.missing_skills)

\* the market demand of the skill of the table with the canonical name
\* given, "none" when the table has no such skill
OwnDemand(name) ==
  IF SkillsNamed(Lower(name)) = {} THEN "none"
  ELSE SKILL_TABLE[CHOOSE i \in SkillsNamed(Lower(name)) : TRUE].market_demand

\* C24: high_priority_missing is exactly the set of the missing skills whose
\* own market demand in the ontology is high or very_high; a missing skill of
\* lower demand or without ontology entry is never listed.  The ontology is
\* that of the module, as the import left it.
C24_HighPriorityExact ==
  (GapReturned /\ Imported) =>
    result.high_priority_missing
      = {s \in result.missing_skills : OwnDemand(s) \in {"high", "very_high"}}

\* a report with a missing skill of high demand listed, next to a missing
\* skill of medium demand and one without ontology entry, both left out
C24_Witness ==
  /\ GapReturned
  /\ \E s \in result.high_priority_missing : OwnDemand(s) = "high"
  /\ \E s \in result.missing_skills : OwnDemand(s) = "none"
  /\ \E s \in result.missing_skills : OwnDemand(s) \in {"medium", "low"}

\* the severity the thresholds give a percentage reported in tenths
SeverityOfReported(tenths) ==
  IF tenths >= 800 THEN "low"
  ELSE IF tenths >= 600 THEN "medium"
  ELSE IF tenths >= 400 THEN "high"
  ELSE "critical"

\* C28: in every report gap_severity agrees with the thresholds applied to
\* the reported match_percentage, the value rounded to one decimal: at least
\* 80 is low, at least 60 medium, at least 40 high, anything else critical.
C28_SeverityOfReportedValue ==
  GapReturned => result.gap_severity = SeverityOfReported(result.match_percentage)

\* C29: in every report high_priority_missing, quick_wins and the keys of
\* related_missing are subsets of missing_skills, every value list of
\* related_missing is non-empty and holds skills of the candidate only, and
\* extra_skills is disjoint from matching_skills and from missing_skills.
C29_ReportConsistent ==
  GapReturned =>
    LET cv_names == NormalizedNames(args.cv_skills, "cv") IN
    /\ result.high_priority_missing \subseteq result.missing_skills
    /\ result.quick_wins \subseteq result.missing_skills
    /\ DOMAIN result.related_missing \subseteq result.missing_skills
    /\ \A s \in DOMAIN result.related_missing :
         /\ result.related_missing[s] # {}
         /\ result.related_missing[s] \subseteq cv_names
    /\ result.extra_skills \cap result.matching_skills = {}
    /\ result.extra_skills \cap result.missing_skills = {}

\* a report with matching, missing and extra skills, a related-coverage
\* entry, a quick win and a high-priority missing skill
C29_Witness ==
  /\ GapReturned
  /\ result.matching_skills # {}
  /\ result.extra_skills # {}
  /\ result.related_missing # <<>>
  /\ result.quick_wins # {}
  /\ result.high_priority_missing # {}

\* C30: include_similar_jds_skills has no effect on the report: a call
\* given the argument returns the report of the call without it, so two
\* calls that differ in that argument alone return the same report, and a
\* skill required by the similar descriptions alone is never in
\* missing_skills.
C30_SimilarSkillsIgnored ==
  op = "calculate_skill_gap" =>
    /\ args.include_similar_jds_skills # NoList =>
         calculate_skill_gap(args.cv_skills, args.jd_skills, NoList) = result
    /\ result.raised = "" =>
         result.missing_skills
           \subseteq NormalizedNames(args.jd_skills, "jd")

\* a report of a call given similar skills, with a missing skill, none of
\* the similar skills among the required ones nor in the report
C30_Witness ==
  /\ GapReturned
  /\ args.include_similar_jds_skills = <<"Kubernetes", "AWS">>
  /\ result.missing_skills # {}
  /\ result.missing_skills \cap {"Kubernetes", "AWS"} = {}
  /\ result.extra_skills # {}
(***************************************************************************)
(* Properties of the vector store.                                         *)
(***************************************************************************)
\* no call of any caller is under way
NoCallUnderWay == \A c \in Callers : pc[c] \in {"idle", "already_initialized", "returned"}

\* the positions of an add_document
AddSteps ==
  {"get_embedding", "embedding_create_client", "embedding_request",
   "append_document", "append_embedding"}

\* the caller is inside the loops of initialize(), or at its last line
Ingesting(c) ==
  \/ /\ pc[c] \in AddSteps
     /\ position[c] \in 1..Len(KnowledgeBase)
  \/ pc[c] = "set_initialized"

\* the store holds documents of the knowledge base only: no caller has added
\* a document of its own
OnlyIngested == \A i \in 1..Len(documents) : documents[i] \in SeqToSet(KnowledgeBase)

\* C9: when several callers invoke initialize() concurrently on a store
\* that is not initialized, the knowledge base is ingested once: after all
\* calls have returned no document id occurs twice in documents, and every
\* embeddings[i] is the vector obtained for documents[i].
C9_ConcurrentInitializeIngestsOnce ==
  (is_initialized /\ NoCallUnderWay /\ OnlyIngested) =>
    /\ \A i, j \in 1..Len(documents) :
         documents[i].id = documents[j].id => i = j
    /\ Len(embeddings) = Len(documents)
    /\ \A i \in 1..Len(documents) : embeddings[i] = VectorOf(documents[i])

\* the positions of a search() that runs step by step
SearchSteps ==
  {"search_test_client", "search_create_client", "search_request", "search_scan"}

\* the caller is in an add_document of its own
Adding(c) ==
  /\ pc[c] \in AddSteps
  /\ position[c] > Len(KnowledgeBase)

\* C10: once initialize() has completed, the calls of initialize() and
\* search() that follow leave documents and embeddings as they are: a call
\* of initialize() made on the initialized store returns at once and no call
\* made on it enters the ingestion, no step of a search() changes the two
\* lists, and while no initialize() begun earlier and no add_document is
\* under way no step changes them.
C10_ReadOnlyAfterInitialize ==
  [][is_initialized =>
       /\ \A c \in Callers :
            /\ (pc[c] = "idle" /\ pc'[c] # "idle") =>
                 \/ pc'[c] \in {"already_initialized", "search_test_client"}
                 \/ pc'[c] = "get_embedding" /\ position'[c] > Len(KnowledgeBase)
            /\ (pc[c] \in {"idle"} \cup SearchSteps /\ pc'[c] # pc[c]) =>
                 /\ documents' = documents
                 /\ embeddings' = embeddings
       /\ (\A c \in Callers : ~Ingesting(c) /\ ~Adding(c)) =>
            (documents' = documents /\ embeddings' = embeddings)]_vars

\* on the initialized store, one caller back from a repeated initialize()
\* and another back from a search() with a result
C10_Witness ==
  /\ is_initialized
  /\ documents # <<>>
  /\ \E c, d \in Callers :
       /\ pc[c] = "already_initialized"
       /\ pc[d] = "returned"
       /\ results[d].returned
       /\ Len(results[d].value) > 0

\* no caller is between the two appends of add_document
NoAppendUnderWay == \A c \in Callers : pc[c] # "append_embedding"

\* C11: after any sequence of add_document, initialize and search calls,
\* whatever the embedding requests gave, documents and embeddings have one
\* length and embeddings[i] is the vector obtained for documents[i]; the
\* lists differ only between the two appends of one add_document.
C11_ParallelLists ==
  /\ NoAppendUnderWay =>
       /\ Len(embeddings) = Len(documents)
       /\ \A i \in 1..Len(documents) : embeddings[i] = VectorOf(documents[i])
  /\ Len(embeddings) <= Len(documents)
  /\ Len(documents) <= Len(embeddings) + 1

\* after an add_document of the caller's own, an initialize() in which an
\* embedding request failed and a search that found a document
C11_Witness ==
  /\ is_initialized
  /\ \E i \in 1..Len(documents) : documents[i] \in SeqToSet(ExtraDocuments)
  /\ \E i \in 1..Len(documents) : documents[i] \in SeqToSet(KnowledgeBase)
  /\ \E i \in 1..Len(KnowledgeBase) : KnowledgeBase[i] \notin SeqToSet(documents)
  /\ \E c \in Callers :
       /\ pc[c] = "returned"
       /\ frame[c].name = "search"
       /\ Len(results[c].value) > 0

\* a caller is back from the function of the given name, a search() or a
\* retrieval with a search, with what it returned
Returned(c, name) ==
  /\ pc[c] = "returned"
  /\ results[c].returned
  /\ frame[c].name = name
  /\ frame[c].vector # <<>>

\* is_initialized goes from false to true only in the last line of
\* initialize(), and never back
FlagSetOnlyByInitialize ==
  [][/\ is_initialized => is_initialized'
     /\ (~is_initialized /\ is_initialized') =>
          \E c \in Callers : pc[c] = "set_initialized" /\ pc'[c] # "set_initialized"
     /\ \A c \in Callers :
          (pc[c] = "idle" /\ pc'[c] = "returned" /\ frame'[c].name = "search")
            => is_initialized' = is_initialized]_vars

\* a retrieval function searches the initialized store only
RetrievalInitializesFirst ==
  \A c \in Callers :
    /\ pc[c] = "retrieve_search" => is_initialized
    /\ \A name \in Retrievals : Returned(c, name) => is_initialized

\* C12: the store has two states; is_initialized goes from
\* false to true only through initialize() and never back; search() on a
\* store that was never initialized returns the empty list and does not
\* initialize it; retrieve_relevant_knowledge and retrieve_resume_tips (with
\* a context other than "general") initialize the store before they search.
C12_Stated ==
  /\ FlagSetOnlyByInitialize
  /\ [](\A c \in Callers :
          (Returned(c, "search") /\ ~is_initialized) => results[c].value = <<>>)
  /\ []RetrievalInitializesFirst

\* a caller is back from a search of the store with the embedding of its
\* query
Searched(c) ==
  /\ \/ Returned(c, "search")
     \/ Returned(c, "retrieve_relevant_knowledge")
  /\ frame[c].query_embedding # NoEmbedding

\* the positions of the store whose document passes the filter
Passing(doc_type) ==
  {i \in 1..Len(embeddings) :
     doc_type \in {NoType, ""} \/ documents[i].doc_type = doc_type}

\* position i of the store comes before position j in the order of the
\* results for the query: the higher score, or the same score and the
\* earlier ingestion
Before(query_embedding, i, j) ==
  LET si == [similarity |-> Similarity(query_embedding, embeddings[i])]
      sj == [similarity |-> Similarity(query_embedding, embeddings[j])]
  IN KeyLess(sj, si) \/ (~KeyLess(si, sj) /\ i < j)

\* the smaller of two numbers
Min(a, b) == IF a < b THEN a ELSE b

\* C13: search returns (document, score) pairs in the order of the score,
\* the highest first, pairs of one score in the order of ingestion, and the
\* result is the first top_k entries of that order over the documents that
\* pass the filter.
C13_RankedResults ==
  \A c \in Callers :
    Searched(c) =>
      LET value == results[c].value
          query_embedding == frame[c].query_embedding
          passing == Passing(frame[c].doc_type)
      IN /\ Len(value) = Min(frame[c].top_k, Cardinality(passing))
         /\ \E at \in [1..Len(value) -> passing] :
              /\ \A a \in 1..Len(value) :
                   /\ value[a].doc = documents[at[a]]
                   /\ value[a].similarity
                        = Similarity(query_embedding, embeddings[at[a]])
              /\ \A a, b \in 1..Len(value) :
                   a < b => Before(query_embedding, at[a], at[b])
              /\ \A a \in 1..Len(value) :
                   \A j \in passing \ {at[b] : b \in 1..Len(value)} :
                     Before(query_embedding, at[a], j)

\* C14: search with a type filter returns documents of that type only, and
\* for every top_k >= 0 at most top_k entries.
C14_FilterAndCut ==
  \A c \in Callers :
    Searched(c) =>
      /\ frame[c].top_k >= 0 => Len(results[c].value) <= frame[c].top_k
      /\ frame[c].doc_type \notin {NoType, ""} =>
           \A a \in 1..Len(results[c].value) :
             results[c].value[a].doc.doc_type = frame[c].doc_type

\* a search for career paths with top_k 1 on a store with two career paths
\* and a document of another type: one career path is returned
C14_Witness ==
  \E c \in Callers :
    /\ Searched(c)
    /\ frame[c].doc_type = "career_path"
    /\ frame[c].top_k = 1
    /\ Cardinality(Passing("career_path")) = 2
    /\ Len(documents) > 2
    /\ Len(results[c].value) = 1

\* C15: when the embedding service is not available or fails for the query,
\* search() returns the empty list and raises nothing, whatever the store
\* holds and whatever the query, top_k and the filter are.
C15_NoEmbeddingNoResults ==
  \A c \in Callers :
    \A name \in {"search"} \cup Retrievals :
      (Returned(c, name) /\ frame[c].query_embedding = NoEmbedding) =>
        results[c].value = <<>>

\* a search without an embedding of its query on a store that holds
\* documents, with the client there and without it
C15_Witness ==
  /\ documents # <<>>
  /\ client = OpenAIClient
  /\ \E c \in Callers :
       /\ Returned(c, "search")
       /\ frame[c].query_embedding = NoEmbedding
       /\ frame[c].top_k > 0
       /\ results[c].value = <<>>

\* C16: search() calls that run side by side on an initialized store do not
\* interfere: no step of them changes documents, embeddings or
\* is_initialized, and each call returns what search() returns on the store
\* for its query, top_k and filter when it runs alone.
C16_SearchesDoNotInterfere ==
  /\ [][is_initialized =>
          /\ documents' = documents
          /\ embeddings' = embeddings
          /\ is_initialized']_vars
  /\ [](\A c \in Callers :
          (is_initialized /\ Returned(c, "search")) =>
            results[c].value
              = search(frame[c].query_embedding, frame[c].top_k, frame[c].doc_type,
                       documents, embeddings))

\* one caller is back from a search with two documents while another is in
\* the loop of its own search, on a store in which the order of ingestion is
\* not the order of either result
C16_Witness ==
  /\ is_initialized
  /\ Len(documents) > 2
  /\ \E c, d \in Callers :
       /\ Returned(c, "search")
       /\ Len(results[c].value) = 2
       /\ results[c].value[1].doc # documents[1]
       /\ pc[d] = "search_scan"


\* the similarity 0
ZeroSimilarity == Zero

\* a vector of norm zero
ZeroNorm(vector) == vector[1] * vector[1] + vector[2] * vector[2] = 0

\* C26: the similarity of a query and a stored vector is their dot product
\* over the product of their norms, and 0 when one of the two has norm zero:
\* no error is raised and no undefined value enters the ranking.
C26_ZeroNormGivesZero ==
  \A c \in Callers :
    Searched(c) =>
      \A a \in 1..Len(results[c].value) :
        /\ results[c].value[a].similarity # NaN
        /\ ZeroNorm(frame[c].query_embedding)
             => results[c].value[a].similarity = ZeroSimilarity

\* the position of a document in the knowledge base, 0 for a document that
\* is not of it
KnowledgeIndex(doc) ==
  IF \E i \in 1..Len(KnowledgeBase) : KnowledgeBase[i] = doc
  THEN CHOOSE i \in 1..Len(KnowledgeBase) : KnowledgeBase[i] = doc
  ELSE 0

\* the positions of the index that hold a document of the knowledge base
Ingested == {i \in 1..Len(documents) : KnowledgeIndex(documents[i]) > 0}

\* the documents of the knowledge base are in the index in the order of the
\* knowledge base, each at most once, and those of an initialize() under way
\* are entries it has come to
IngestionOrder ==
  /\ \A i, j \in Ingested :
       i < j => KnowledgeIndex(documents[i]) < KnowledgeIndex(documents[j])
  /\ \A c \in Callers :
       (Ingesting(c) /\ pc[c] # "set_initialized") =>
         \A i \in Ingested :
           KnowledgeIndex(documents[i])
             < position[c] + (IF pc[c] = "append_embedding" THEN 1 ELSE 0)
  /\ (\A c \in Callers : ~Ingesting(c)) /\ ~is_initialized => Ingested = {}

\* one entry of initialize(): the request of the embedding either succeeds,
\* and the document and its embedding are appended next, or fails, and the
\* lists stay as they are while the call goes on to the next entry or, after
\* the last one, to setting is_initialized
IngestionStep ==
  \A c \in Callers :
    Ingesting(c) =>
      LET p == position[c] IN
      /\ (pc[c] = "get_embedding" /\ <<pc[c], p>> # <<pc'[c], position'[c]>>) =>
           /\ documents' = documents /\ embeddings' = embeddings
           /\ \/ /\ pc'[c] = "append_document"
                 /\ embedding'[c] = VectorOf(KnowledgeBase[p])
                 /\ position'[c] = p
              \/ /\ pc'[c] = IF p < Len(KnowledgeBase) THEN "get_embedding"
                             ELSE "set_initialized"
                 /\ position'[c] = p + 1
      /\ (pc[c] = "append_document" /\ pc'[c] # pc[c]) =>
           /\ documents' = Append(documents, KnowledgeBase[p])
           /\ pc'[c] = "append_embedding"
      /\ (pc[c] = "append_embedding" /\ pc'[c] # pc[c]) =>
           /\ embeddings' = Append(embeddings, VectorOf(KnowledgeBase[p]))
           /\ documents' = documents
           /\ pc'[c] = IF p < Len(KnowledgeBase) THEN "get_embedding"
                       ELSE "set_initialized"
      /\ (pc[c] = "set_initialized" /\ pc'[c] # pc[c]) =>
           /\ is_initialized'
           /\ documents' = documents /\ embeddings' = embeddings

\* C25: in initialize() a document whose embedding fails is skipped and the
\* initialization goes on; initialize() always completes, without raising,
\* and the index then holds exactly the documents whose embedding succeeded,
\* in the order of ingestion: skills, career paths, resume tips.
C25_SkipAndComplete ==
  /\ []IngestionOrder
  /\ [][IngestionStep]_vars
  /\ \A c \in Callers :
       Ingesting(c) ~> (is_initialized /\ ~Ingesting(c))

\* initialize() has completed with a document left out and a later one of
\* the knowledge base in the index
C25_Witness ==
  /\ is_initialized
  /\ \A c \in Callers : ~Ingesting(c)
  /\ \E i, j \in 1..Len(KnowledgeBase) :
       /\ i < j
       /\ \A k \in 1..Len(documents) : documents[k] # KnowledgeBase[i]
       /\ \E k \in 1..Len(documents) : documents[k] = KnowledgeBase[j]

\* the store is initialized and holds no document of the knowledge base:
\* every request of the first initialize() failed
InitializedEmpty == is_initialized /\ Ingested = {}

\* a caller's own add_document is appending its document
OwnAppend ==
  \E c \in Callers :
    pc[c] = "append_document" /\ position[c] > Len(KnowledgeBase)

\* C27: when the provider is unavailable for every document during the
\* first initialize(), the store ends initialized with an empty index, and
\* no later initialize() or search() ingests any document: every later
\* search returns nothing of the knowledge base, also once the provider
\* answers again.
C27_EmptyForever ==
  /\ [][InitializedEmpty =>
          /\ InitializedEmpty'
          /\ documents' # documents => OwnAppend]_vars
  /\ [](InitializedEmpty =>
          \A c \in Callers :
            \A name \in {"search"} \cup Retrievals :
              Returned(c, name) =>
                /\ Len(results[c].value) <= Len(documents)
                /\ name # "retrieve_resume_tips" =>
                     \A a \in 1..Len(results[c].value) :
                       KnowledgeIndex(results[c].value[a].doc) = 0)

\* the store is initialized with an empty index, the provider answers, and
\* a search for up to two documents of any type has returned nothing
C27_Witness ==
  /\ InitializedEmpty
  /\ documents = <<>>
  /\ client = OpenAIClient
  /\ \E c \in Callers :
       /\ Searched(c)
       /\ frame[c].top_k = 2
       /\ frame[c].doc_type = NoType
       /\ results[c].value = <<>>
=============================================================================
